---- MODULE Spec2Model ----
(***************************************************************************)
(* A model of tractus: statements of an R-like script are folded into a    *)
(* dependency graph and then into a tree of expressions keyed by sets of   *)
(* hypotheses (src/src/hypotheses_tree.rs, src/src/parser.rs).             *)
(***************************************************************************)
EXTENDS Integers, Sequences, FiniteSets, TLC

(***************************************************************************)
(* Option<T>                                                               *)
(***************************************************************************)
None == [some |-> FALSE]
Some(x) == [some |-> TRUE, val |-> x]

(***************************************************************************)
(* RExp (parser.rs:94-106) and RFormula (parser.rs:215-219)                *)
(***************************************************************************)
Constant(text) == [type |-> "Constant", text |-> text]
Variable(name) == [type |-> "Variable", name |-> name]
Call(fn, args) == [type |-> "Call", fn |-> fn, args |-> args]
Column(left, right) == [type |-> "Column", left |-> left, right |-> right]
Index(left, indices) == [type |-> "Index", left |-> left, indices |-> indices]
ListIndex(left, indices) == [type |-> "ListIndex", left |-> left, indices |-> indices]
OneSided(right) == [type |-> "Formula", sided |-> "OneSided", right |-> right]
TwoSided(left, right) == [type |-> "Formula", sided |-> "TwoSided", left |-> left, right |-> right]
Prefix(op, exp) == [type |-> "Prefix", op |-> op, exp |-> exp]
Infix(op, left, right) == [type |-> "Infix", op |-> op, left |-> left, right |-> right]

\* One call argument: (Option<RIdentifier>, RExp).
Arg(name, value) == [name |-> name, value |-> value]

(***************************************************************************)
(* RStmt (parser.rs:31-42)                                                 *)
(***************************************************************************)
Empty == [type |-> "Empty"]
Comment(text) == [type |-> "Comment", text |-> text]
TailComment(statement, text) == [type |-> "TailComment", statement |-> statement, text |-> text]
Assignment(lhs, additional, rhs) == [type |-> "Assignment", lhs |-> lhs, additional |-> additional, rhs |-> rhs]
If(cond, body, else_body) == [type |-> "If", cond |-> cond, body |-> body, else_body |-> else_body]
While(cond, body) == [type |-> "While", cond |-> cond, body |-> body]
For(pattern, range, body) == [type |-> "For", pattern |-> pattern, range |-> range, body |-> body]
Library(name) == [type |-> "Library", name |-> name]
Expression(exp) == [type |-> "Expression", exp |-> exp]

\* RStmt::expression: the expression the downstream pipeline consumes.
RECURSIVE expression(_)
\* A variant that hands the condition of an If or a While and the range of a
\* For to the pipeline.
expression_of_control(statement) ==
    CASE statement.type = "Assignment" -> Some(statement.rhs)
      [] statement.type = "Expression" -> Some(statement.exp)
      [] statement.type = "TailComment" -> expression(statement.statement)
      [] statement.type \in {"If", "While"} -> Some(statement.cond)
      [] statement.type = "For" -> Some(statement.range)
      [] OTHER -> None

\* A variant that does not look under a tail comment.
expression_of_bare_statement(statement) ==
    CASE statement.type = "Assignment" -> Some(statement.rhs)
      [] statement.type = "Expression" -> Some(statement.exp)
      [] OTHER -> None

expression(statement) ==
    CASE statement.type = "Assignment" -> Some(statement.rhs)
      [] statement.type = "Expression" -> Some(statement.exp)
      [] statement.type = "TailComment" -> expression(statement.statement)
      [] OTHER -> None

(***************************************************************************)
(* Display of expressions (parser.rs:149-229)                              *)
(***************************************************************************)
RECURSIVE Join(_, _)
Join(strings, sep) ==
    IF Len(strings) = 0 THEN ""
    ELSE IF Len(strings) = 1 THEN strings[1]
    ELSE strings[1] \o sep \o Join(Tail(strings), sep)

RECURSIVE Display(_)
DisplayArg(arg) ==
    IF arg.name.some THEN arg.name.val \o " = " \o Display(arg.value)
    ELSE Display(arg.value)

DisplayIndices(indices) ==
    Join([i \in DOMAIN indices |->
            IF indices[i].some THEN Display(indices[i].val) ELSE ""], ", ")

Display(e) ==
    CASE e.type = "Constant" -> e.text
      [] e.type = "Variable" -> e.name
      [] e.type = "Call" ->
            Display(e.fn) \o "(" \o Join([i \in DOMAIN e.args |-> DisplayArg(e.args[i])], ", ") \o ")"
      [] e.type = "Column" -> Display(e.left) \o "$" \o Display(e.right)
      [] e.type = "Index" -> Display(e.left) \o "[" \o DisplayIndices(e.indices) \o "]"
      [] e.type = "ListIndex" -> Display(e.left) \o "[[" \o DisplayIndices(e.indices) \o "]]"
      [] e.type = "Formula" ->
            IF e.sided = "OneSided" THEN "~ " \o Display(e.right)
            ELSE Display(e.left) \o " ~ " \o Display(e.right)
      [] e.type = "Prefix" -> e.op \o Display(e.exp)
      [] e.type = "Infix" -> Display(e.left) \o " " \o e.op \o " " \o Display(e.right)

(***************************************************************************)
(* RExp::extract_variable_name (parser.rs:125-147).  The result is an      *)
(* Option, or Panic when the callee of a Call has no variable name.        *)
(***************************************************************************)
Panic == [some |-> FALSE, panic |-> TRUE]
valid_functions == {"colnames", "rownames", "names"}

RECURSIVE extract_variable_name(_)
\* A variant that does not count the arguments of the call.
extract_variable_name_any_arity(e) ==
    CASE e.type = "Variable" -> Some(e.name)
      [] e.type = "Column" -> extract_variable_name(e.left)
      [] e.type = "Index" -> extract_variable_name(e.left)
      [] e.type = "Call" ->
            LET function_name == extract_variable_name(e.fn) IN
            IF ~function_name.some THEN Panic
            ELSE IF function_name.val \in valid_functions /\ Len(e.args) >= 1
                 THEN extract_variable_name(e.args[1].value)
                 ELSE None
      [] OTHER -> None

extract_variable_name(e) ==
    CASE e.type = "Variable" -> Some(e.name)
      [] e.type = "Column" -> extract_variable_name(e.left)
      [] e.type = "Index" -> extract_variable_name(e.left)
      [] e.type = "Call" ->
            LET function_name == extract_variable_name(e.fn) IN
            IF ~function_name.some THEN Panic
            ELSE IF function_name.val \in valid_functions /\ Len(e.args) = 1
                 THEN extract_variable_name(e.args[1].value)
                 ELSE None
      [] OTHER -> None

(***************************************************************************)
(* The hypothesis detector and the reads of an expression.  Their code     *)
(* (crate::hypotheses, crate::dependency_graph) is modelled from the       *)
(* specification, sections 4.2 and 4.3.                                    *)
(***************************************************************************)
\* The direct subexpressions of an expression.
SubExpressions(e) ==
    CASE e.type = "Call" -> {e.fn} \cup {e.args[i].value : i \in DOMAIN e.args}
      [] e.type = "Column" -> {e.left, e.right}
      [] e.type \in {"Index", "ListIndex"} ->
            {e.left} \cup {e.indices[i].val : i \in {j \in DOMAIN e.indices : e.indices[j].some}}
      [] e.type = "Formula" ->
            IF e.sided = "OneSided" THEN {e.right} ELSE {e.left, e.right}
      [] e.type = "Prefix" -> {e.exp}
      [] e.type = "Infix" -> {e.left, e.right}
      [] OTHER -> {}

\* detect(expression): the pretty-printed form of every two-sided formula
\* anywhere in the expression; one-sided formulae contribute nothing.
RECURSIVE detect_hypotheses(_)
detect_hypotheses(e) ==
    (IF e.type = "Formula" /\ e.sided = "TwoSided" THEN {Display(e)} ELSE {})
        \cup UNION {detect_hypotheses(sub) : sub \in SubExpressions(e)}

\* The identifiers an expression reads: every Variable(name) in it.
RECURSIVE extract_dependencies(_)
extract_dependencies(e) ==
    IF e.type = "Variable" THEN {e.name}
    ELSE UNION {extract_dependencies(sub) : sub \in SubExpressions(e)}

(***************************************************************************)
(* The scripts the model runs.  A script is a list of at most MaxStmts     *)
(* statements drawn from one family of statements that share variables.    *)
(***************************************************************************)
MaxStmts == 6

SpeedLayout == TwoSided(Variable("Speed"), Variable("Layout"))
KbdParticipant == Column(Variable("kbd"), Constant("ParticipantID"))

\* The statements of simple_hypothesis_tree (hypotheses_tree.rs:263-317).
KbdAssign == Assignment(Variable("kbd"), <<>>, Constant("data frame"))
KbdFactor == Assignment(KbdParticipant, <<>>, Call(Variable("factor"), <<Arg(None, KbdParticipant)>>))
KbdPlot == Expression(Call(Variable("plot"), <<Arg(None, SpeedLayout), Arg(Some("data"), Variable("kbd"))>>))
KbdSummary == Expression(Call(Variable("summary"), <<Arg(None, Variable("kbd"))>>))
KbdProgram == <<KbdAssign, KbdFactor, KbdPlot, KbdSummary>>
FamilyKbd == {KbdAssign, KbdFactor, KbdPlot, KbdSummary}

\* c <- lm(Speed ~ Layout); b <- 1; f(a, b); a <- g(c)
ModelAssign == Assignment(Variable("c"), <<>>, Call(Variable("lm"), <<Arg(None, SpeedLayout)>>))
OneAssign == Assignment(Variable("b"), <<>>, Constant("1"))
UseBoth == Expression(Call(Variable("f"), <<Arg(None, Variable("a")), Arg(None, Variable("b"))>>))
DeriveAssign == Assignment(Variable("a"), <<>>, Call(Variable("g"), <<Arg(None, Variable("c"))>>))
FamilyRepeat == {ModelAssign, OneAssign, UseBoth, DeriveAssign}

\* a <- lm(Speed ~ Layout); a <- 1; f(a)
AModel == Assignment(Variable("a"), <<>>, Call(Variable("lm"), <<Arg(None, SpeedLayout)>>))
AOne == Assignment(Variable("a"), <<>>, Constant("1"))
UseA == Expression(Call(Variable("f"), <<Arg(None, Variable("a"))>>))
FamilyShadow == {AModel, AOne, UseA}

\* Statements that only matter for rendering, around an assignment and a
\* statement under a tail comment.
CommentLine == Comment("# First block")
PlotCommented == TailComment(KbdPlot, "# plot")
FamilyRendering == {Empty, CommentLine, PlotCommented, KbdAssign}

\* Control flow and a library load, around a plain expression.  The bodies
\* hold a hypothesis of their own, the expression of KbdPlot, and a write.
ErrorLayout == TwoSided(Variable("Error"), Variable("Layout"))
IfModel ==
    If(Variable("kbd"),
       <<Expression(Call(Variable("lm"), <<Arg(None, ErrorLayout)>>))>>,
       Some(<<KbdSummary>>))
WhileModel == While(Constant("true"), <<KbdPlot>>)
ForModel == For(Variable("i"), Infix(":", Constant("1"), Constant("10")), <<KbdAssign>>)
LibraryStats == Library("stats")
FamilyControl == {IfModel, WhileModel, ForModel, LibraryStats, KbdPlot}

\* Statements with formulae of either kind at several depths.
ErrorAge == TwoSided(Variable("Error"), Variable("Age"))
TableOneSided == Expression(Call(Variable("xtabs"), <<Arg(None, OneSided(Variable("Layout")))>>))
FitNested ==
    Assignment(Variable("fit"), <<>>,
               Call(Variable("summary"), <<Arg(None, Call(Variable("lm"), <<Arg(None, SpeedLayout)>>))>>))
FitIndexed == Expression(Index(Variable("fit"), <<Some(ErrorAge), None>>))
FitPlot == Expression(Call(Variable("plot"), <<Arg(None, Variable("fit"))>>))
FamilyFormula == {TableOneSided, FitNested, FitIndexed, FitPlot}

\* f(a); g(x); x <- f(a): a plain expression that is also the right side of
\* an assignment, and a reader of what the assignment writes.
XFromUse ==
    Assignment(Variable("x"), <<>>, Call(Variable("f"), <<Arg(None, Variable("a"))>>))
UseX == Expression(Call(Variable("g"), <<Arg(None, Variable("x"))>>))
FamilyAlias == {UseA, UseX, XFromUse}

Families == {"kbd", "repeat", "shadow", "rendering", "control", "formula", "alias"}
Statements(name) ==
    CASE name = "kbd" -> FamilyKbd
      [] name = "repeat" -> FamilyRepeat
      [] name = "shadow" -> FamilyShadow
      [] name = "rendering" -> FamilyRendering
      [] name = "control" -> FamilyControl
      [] name = "formula" -> FamilyFormula
      [] name = "alias" -> FamilyAlias

\* The scripts of the repeat and shadow families, in which an expression has
\* to recur after several writes, are at most MaxStmts long; the scripts of
\* the other families are at most MaxLines long.
MaxLines == 4
ScriptBound(name) == IF name \in {"repeat", "shadow"} THEN MaxStmts ELSE MaxLines

(***************************************************************************)
(* State                                                                   *)
(***************************************************************************)
VARIABLES
    family,          \* the family of statements the script is written with
    stmts,           \* the statement list, as far as it has been read
    pc,              \* "graph", "tree", "done", or the unwrap that panicked
    graph_nodes,     \* DependencyGraph: node weights, NodeIndex = position
    graph_edges,     \* DependencyGraph: edges <<from, to>>
    lines,           \* DependencyGraph: expression -> NodeIndex (id)
    variables,       \* DependencyGraph: identifier -> NodeIndex of its latest writer
    pos,             \* parse_hypothesis_tree: index of the next statement
    root,            \* parse_hypothesis_tree: root branches, of RefNodes
    expression_map,  \* parse_hypothesis_tree: expression -> HypothesesId
    hypotheses_map,  \* parse_hypothesis_tree: HypothesesMap, the Vec<Hypotheses>
    node_map,        \* parse_hypothesis_tree: NodeIndex -> RefNode
    refs,            \* the RefNodes allocated so far, named by the statement that made them
    visit,           \* what the latest collect_hypotheses call saw and did
    tree,            \* the finished HypothesisTree
    line_tree,       \* the LineTree made from it
    html,            \* main: the document rendered from the tree
    rerun            \* the second analysis: the statements still to read, and the first result

vars == <<family, stmts, pc, graph_nodes, graph_edges, lines, variables, pos, root,
          expression_map, hypotheses_map, node_map, refs, visit, tree, line_tree,
          html, rerun>>

graph_vars == <<graph_nodes, graph_edges, lines, variables>>
tree_vars == <<pos, root, expression_map, hypotheses_map, node_map, refs, visit, tree, line_tree, html>>

EmptyMap == [x \in {} |-> x]
NoVisit == [called |-> FALSE]
NoHtml == [rendered |-> FALSE]
NoTree == [finished |-> FALSE]
NoLineTree == [rendered |-> FALSE]
NoRerun == [again |-> FALSE]

Init ==
    /\ family \in Families
    /\ stmts = <<>>
    /\ pc = "graph"
    /\ graph_nodes = <<>>
    /\ graph_edges = {}
    /\ lines = EmptyMap
    /\ variables = EmptyMap
    /\ pos = 1
    /\ root = <<>>
    /\ expression_map = EmptyMap
    /\ hypotheses_map = <<>>
    /\ node_map = EmptyMap
    /\ refs = EmptyMap
    /\ visit = NoVisit
    /\ tree = NoTree
    /\ line_tree = NoLineTree
    /\ html = NoHtml
    /\ rerun = NoRerun

(***************************************************************************)
(* DependencyGraph::from_input, one statement per step (specification,     *)
(* section 4.2).                                                           *)
(***************************************************************************)
RECURSIVE Unwrapped(_)
Unwrapped(statement) ==
    IF statement.type = "TailComment" THEN Unwrapped(statement.statement) ELSE statement

\* A variant in which a call also writes what its last argument names.
WritesLastArgument(statement) ==
    LET inner == Unwrapped(statement) IN
    IF inner.type = "Assignment" THEN extract_variable_name(inner.lhs)
    ELSE IF inner.type = "Expression" /\ inner.exp.type = "Call" /\ Len(inner.exp.args) > 0
    THEN extract_variable_name(inner.exp.args[Len(inner.exp.args)].value)
    ELSE None

\* The identifier a statement writes.
Writes(statement) ==
    LET inner == Unwrapped(statement) IN
    IF inner.type = "Assignment" THEN extract_variable_name(inner.lhs) ELSE None

\* The direct predecessors of a node.
Incoming(node) == {e[1] : e \in {d \in graph_edges : d[2] = node}}

\* A variant that keeps the node recorded first for an expression.
record_id_first(ids, exp, node) ==
    IF exp \in DOMAIN ids THEN ids ELSE (exp :> node) @@ ids

\* id_of(expression) = node: the node inserted last for an expression.
record_id(ids, exp, node) == (exp :> node) @@ ids

\* A variant whose edges point from the new node to the writers.
add_edges_backward(reads, writers, node) ==
    {<<node, writers[v]>> : v \in reads \cap DOMAIN writers}

\* One edge to the new node from the most recent prior writer of every
\* identifier read.
add_edges(reads, writers, node) ==
    {<<writers[v], node>> : v \in reads \cap DOMAIN writers}

\* A variant in which the first writer of an identifier stays its writer.
record_writer_first(writers, name, node) ==
    IF name \in DOMAIN writers THEN writers ELSE (name :> node) @@ writers

\* The new node becomes the most recent writer of the identifier.
record_writer(writers, name, node) == (name :> node) @@ writers

\* One more statement of the script is read and inserted into the graph.
Insert(statement) ==
    /\ pc = "graph"
    /\ Len(stmts) < ScriptBound(family)
    /\ stmts' = Append(stmts, statement)
    /\ LET exp == expression(statement)
           writes == Writes(statement)
           node == Len(graph_nodes) + 1
       IN IF ~exp.some
          THEN UNCHANGED <<pc, graph_vars>>
          ELSE IF writes = Panic
          THEN pc' = "panic_function_name" /\ UNCHANGED graph_vars
          ELSE /\ graph_nodes' = Append(graph_nodes, exp.val)
               /\ lines' = record_id(lines, exp.val, node)
               /\ graph_edges' = graph_edges \cup
                    add_edges(extract_dependencies(exp.val), variables, node)
               /\ variables' = IF writes.some
                               THEN record_writer(variables, writes.val, node)
                               ELSE variables
               /\ UNCHANGED pc
    /\ UNCHANGED tree_vars
    /\ UNCHANGED family

\* The script has been read; the tree is built from it.
StartTree ==
    /\ pc = "graph"
    /\ pc' = "tree"
    /\ UNCHANGED <<family, stmts, graph_vars, tree_vars>>

(***************************************************************************)
(* HypothesesMap (hypotheses_tree.rs:34-61): a Vec<Hypotheses>; the        *)
(* HypothesesId of a set is its 0-based index.                             *)
(***************************************************************************)
\* iter().position(|hyp| hyp == &item)
Position(map, item) ==
    LET found == {i \in DOMAIN map : map[i] = item} IN
    IF found = {} THEN None
    ELSE Some((CHOOSE i \in found : \A j \in found : i <= j) - 1)

\* A variant of insert that never deduplicates.
HypothesesMapInsertAlwaysPush(map, item) ==
    [map |-> Append(map, item), id |-> Len(Append(map, item)) - 1]

\* A variant of insert that returns the length of the map as the id of a new
\* set.
HypothesesMapInsertLength(map, item) ==
    LET index == Position(map, item) IN
    IF index.some
    THEN [map |-> map, id |-> index.val]
    ELSE [map |-> Append(map, item), id |-> Len(Append(map, item))]

\* HypothesesMap::insert: the map afterwards and the id returned.
HypothesesMapInsert(map, item) ==
    LET index == Position(map, item) IN
    IF index.some
    THEN [map |-> map, id |-> index.val]
    ELSE [map |-> Append(map, item), id |-> Len(Append(map, item)) - 1]

\* HypothesesMap::get
HypothesesMapGet(map, id) ==
    IF id < Len(map) THEN Some(map[id + 1]) ELSE None

\* HypothesesMap::into_map
into_map(map) == [id \in 0 .. (Len(map) - 1) |-> map[id + 1]]

(***************************************************************************)
(* Branches (hypotheses_tree.rs:65): a BTreeMap from HypothesesId to a     *)
(* Vec of nodes, kept as the list of its entries in key order.             *)
(***************************************************************************)
\* A variant of entry that adds a new key behind the others, whatever its rank.
BTreeMapEntryUnsorted(branches, key) ==
    IF \E i \in DOMAIN branches : branches[i].id = key
    THEN branches
    ELSE Append(branches, [id |-> key, nodes |-> <<>>])

\* entry(key).or_insert_with(|| vec![])
BTreeMapEntry(branches, key) ==
    IF \E i \in DOMAIN branches : branches[i].id = key
    THEN branches
    ELSE LET before == Cardinality({i \in DOMAIN branches : branches[i].id < key}) IN
         SubSeq(branches, 1, before) \o <<[id |-> key, nodes |-> <<>>]>>
            \o SubSeq(branches, before + 1, Len(branches))

\* A variant of push that forgets what the list held.
VecPushReplacing(vec, item) == <<item>>

\* Vec::push
VecPush(vec, item) == Append(vec, item)

\* A variant that also lists the node under the first key of the map.
BranchesPushAlsoFirst(branches, key, node) ==
    LET entries == BTreeMapEntry(branches, key) IN
    [i \in DOMAIN entries |->
        IF entries[i].id = key \/ i = 1
        THEN [entries[i] EXCEPT !.nodes = VecPush(@, node)]
        ELSE entries[i]]

\* entry(key).or_insert_with(|| vec![]).push(node)
BranchesPush(branches, key, node) ==
    LET entries == BTreeMapEntry(branches, key) IN
    [i \in DOMAIN entries |->
        IF entries[i].id = key
        THEN [entries[i] EXCEPT !.nodes = VecPush(@, node)]
        ELSE entries[i]]

(***************************************************************************)
(* collect_hypotheses (hypotheses_tree.rs:207-252)                         *)
(***************************************************************************)
\* dependency_graph.id(expression)
id(exp) == IF exp \in DOMAIN lines THEN Some(lines[exp]) ELSE None

\* A variant that hands over every hypothesis recorded so far, whoever holds it.
NeighbourHypothesesOfAll(node, hyp_map, exp_map) ==
    UNION {hyp_map[i] : i \in DOMAIN hyp_map}

\* The hypotheses of one incoming neighbour: its recorded set, or what is
\* detected in it when it has no HypothesesId yet.
NeighbourHypotheses(node, hyp_map, exp_map) ==
    LET exp == graph_nodes[node] IN
    IF exp \in DOMAIN exp_map
    THEN HypothesesMapGet(hyp_map, exp_map[exp]).val
    ELSE detect_hypotheses(exp)

\* graph().neighbors_directed(node_id, Direction::Incoming): the incoming
\* neighbours in some order of enumeration.
neighbors_directed(node_id) ==
    {order \in [1 .. Cardinality(Incoming(node_id)) -> Incoming(node_id)] :
        \A i, j \in DOMAIN order : i # j => order[i] # order[j]}

\* The hypotheses of the neighbours as they are enumerated; they are only
\* ever inserted into a set.
inherited_hypotheses(neighbours, hyp_map, exp_map) ==
    UNION {NeighbourHypotheses(neighbours[k], hyp_map, exp_map) : k \in DOMAIN neighbours}

\* A variant that recomputes the set from what is inherited now.
ExtendKnownFromScratch(known, inherited) == inherited

\* The set stored under an id that is already known is extended in place.
ExtendKnown(known, inherited) == known \cup inherited

\* A variant that records only what is inherited.
CollectInherited(exp, inherited) == inherited

\* The set of an expression seen for the first time.
CollectNew(exp, inherited) == detect_hypotheses(exp) \cup inherited

\* The two maps after collect_hypotheses(expression).
collect_hypotheses(exp, hyp_map, exp_map, neighbours) ==
    LET inherited == inherited_hypotheses(neighbours, hyp_map, exp_map)
    IN IF exp \in DOMAIN exp_map
       THEN LET known == exp_map[exp] IN
            [hypotheses_map |-> [hyp_map EXCEPT ![known + 1] = ExtendKnown(@, inherited)],
             expression_map |-> (exp :> known) @@ exp_map]
       ELSE LET inserted == HypothesesMapInsert(hyp_map, CollectNew(exp, inherited)) IN
            [hypotheses_map |-> inserted.map,
             expression_map |-> (exp :> inserted.id) @@ exp_map]

(***************************************************************************)
(* parse_hypothesis_tree (hypotheses_tree.rs:139-205)                      *)
(***************************************************************************)
RECURSIVE sort_unstable(_)
\* A variant that leaves the node ids as they were enumerated.
sort_unstable_as_enumerated(parents) == parents

\* parents.sort_unstable(): the node ids in ascending order.
sort_unstable(parents) ==
    IF Len(parents) = 0 THEN <<>>
    ELSE LET at == CHOOSE k \in DOMAIN parents : \A m \in DOMAIN parents : parents[m] <= parents[k]
         IN Append(sort_unstable(SubSeq(parents, 1, at - 1) \o SubSeq(parents, at + 1, Len(parents))),
                   parents[at])

\* A variant that takes the smallest node id.
SelectParentFirst(parents) ==
    IF Len(parents) = 0 THEN None ELSE Some(parents[1])

\* parents.last()
SelectParent(parents) ==
    IF Len(parents) = 0 THEN None ELSE Some(parents[Len(parents)])

\* One iteration of the loop over the statements' expressions.
Process ==
    /\ pc = "tree"
    /\ pos <= Len(stmts)
    /\ LET exp == expression(stmts[pos]) IN
       IF ~exp.some
       THEN /\ pos' = pos + 1
            /\ UNCHANGED <<pc, root, expression_map, hypotheses_map, node_map, refs, visit>>
       ELSE IF ~id(exp.val).some
       THEN /\ pc' = "panic_graph_id"
            /\ UNCHANGED <<pos, root, expression_map, hypotheses_map, node_map, refs, visit>>
       ELSE
       \E neighbours, parents \in neighbors_directed(id(exp.val).val) :
       LET e == exp.val
           node_id == id(e).val
           collected == collect_hypotheses(e, hypotheses_map, expression_map, neighbours)
           hypotheses_id == collected.expression_map[e]
           ref_node == pos
           parent == SelectParent(sort_unstable(parents))
       IN /\ hypotheses_map' = collected.hypotheses_map
          /\ expression_map' = collected.expression_map
          /\ visit' = [called |-> TRUE,
                       at |-> pos,
                       inherited |-> inherited_hypotheses(neighbours, hypotheses_map, expression_map),
                       known |-> IF e \in DOMAIN expression_map THEN Some(expression_map[e]) ELSE None,
                       before |-> hypotheses_map]
          /\ IF parent.some /\ parent.val \notin DOMAIN node_map
             THEN /\ pc' = "panic_parent"
                  /\ UNCHANGED <<pos, root, node_map, refs>>
             ELSE /\ IF parent.some
                     THEN LET parent_ref == node_map[parent.val] IN
                          /\ refs' = (ref_node :> [id |-> node_id, children |-> <<>>]) @@
                                [refs EXCEPT ![parent_ref].children =
                                    BranchesPush(@, hypotheses_id, ref_node)]
                          /\ UNCHANGED root
                     ELSE /\ root' = BranchesPush(root, hypotheses_id, ref_node)
                          /\ refs' = (ref_node :> [id |-> node_id, children |-> <<>>]) @@ refs
                  /\ node_map' = (node_id :> ref_node) @@ node_map
                  /\ pos' = pos + 1
                  /\ UNCHANGED pc
    /\ UNCHANGED <<family, stmts, graph_vars, tree, line_tree, html>>

\* convert (hypotheses_tree.rs:94-113) and the conversion of the root.
RECURSIVE convert(_)
ConvertBranches(branches) ==
    [i \in DOMAIN branches |->
        [id |-> branches[i].id,
         nodes |-> [j \in DOMAIN branches[i].nodes |-> convert(branches[i].nodes[j])]]]

convert(ref_node) ==
    [content |-> graph_nodes[refs[ref_node].id],
     children |-> ConvertBranches(refs[ref_node].children)]

\* The number of Rc handles on a RefNode once node_map is dropped; try_unwrap
\* fails on a RefNode that more than one branch list holds.
Slots(branches) ==
    {<<i, j>> \in (DOMAIN branches) \X (1 .. MaxStmts + 1) : j \in DOMAIN branches[i].nodes}

strong_count(ref_node) ==
    Cardinality({s \in Slots(root) : root[s[1]].nodes[s[2]] = ref_node})
    + Cardinality({<<r, s>> \in (DOMAIN refs) \X ((1 .. MaxStmts + 1) \X (1 .. MaxStmts + 1)) :
            /\ s \in Slots(refs[r].children)
            /\ refs[r].children[s[1]].nodes[s[2]] = ref_node})

\* The loop has ended: node_map is dropped and the tree is frozen.
Finish ==
    /\ pc = "tree"
    /\ pos > Len(stmts)
    /\ IF \E r \in DOMAIN refs : strong_count(r) > 1
       THEN pc' = "panic_try_unwrap" /\ UNCHANGED tree
       ELSE /\ pc' = "done"
            /\ tree' = [finished |-> TRUE,
                        root |-> ConvertBranches(root),
                        hypotheses |-> into_map(hypotheses_map)]
    /\ UNCHANGED <<family, stmts, graph_vars, pos, root, expression_map, hypotheses_map,
                   node_map, refs, visit, line_tree, html>>

(***************************************************************************)
(* LineTree::from (hypotheses_tree.rs:25-32) with map_branches and         *)
(* map_node (hypotheses_tree.rs:74-86)                                     *)
(***************************************************************************)
\* format!("{}", LineDisplay::from(e)): the single-line form of an expression.
LineDisplay(e) == Display(e)

\* A variant that leaves the children of a node out.
map_node_childless(node) ==
    [content |-> LineDisplay(node.content), children |-> <<>>]

RECURSIVE map_node(_)
map_branches(branches) ==
    [i \in DOMAIN branches |->
        [id |-> branches[i].id,
         nodes |-> [j \in DOMAIN branches[i].nodes |-> map_node(branches[i].nodes[j])]]]

map_node(node) ==
    [content |-> LineDisplay(node.content), children |-> map_branches(node.children)]

\* The line tree of the finished tree is made, for serialization.
Render ==
    /\ pc = "done"
    /\ ~line_tree.rendered
    /\ line_tree' = [rendered |-> TRUE,
                     root |-> map_branches(tree.root),
                     hypotheses |-> tree.hypotheses]
    /\ UNCHANGED <<family, stmts, pc, graph_vars, pos, root, expression_map, hypotheses_map,
                   node_map, refs, visit, tree, html, rerun>>

(***************************************************************************)
(* A second analysis of the script without the statements that only matter *)
(* for rendering, to compare the two results.                              *)
(***************************************************************************)
\* A statement list without its Empty and Comment statements and with every
\* statement taken out of its TailComment.
RECURSIVE Core(_)
Core(statements) ==
    IF Len(statements) = 0 THEN <<>>
    ELSE IF Head(statements).type \in {"Empty", "Comment"}
    THEN Core(Tail(statements))
    ELSE <<Unwrapped(Head(statements))>> \o Core(Tail(statements))

\* The script of a finished analysis is analysed once more without the
\* statements that only matter for rendering; the first result is kept.
Strip ==
    /\ pc = "done"
    /\ line_tree.rendered
    /\ ~rerun.again
    /\ Core(stmts) # stmts
    /\ rerun' = [again |-> TRUE, pending |-> Core(stmts), script |-> stmts,
                 tree |-> tree, nodes |-> graph_nodes, edges |-> graph_edges]
    /\ pc' = "graph"
    /\ stmts' = <<>>
    /\ graph_nodes' = <<>>
    /\ graph_edges' = {}
    /\ lines' = EmptyMap
    /\ variables' = EmptyMap
    /\ pos' = 1
    /\ root' = <<>>
    /\ expression_map' = EmptyMap
    /\ hypotheses_map' = <<>>
    /\ node_map' = EmptyMap
    /\ refs' = EmptyMap
    /\ visit' = NoVisit
    /\ tree' = NoTree
    /\ line_tree' = NoLineTree
    /\ html' = NoHtml
    /\ UNCHANGED family

\* The next statement of the second analysis is read.
Reinsert ==
    /\ rerun.again
    /\ rerun.pending # <<>>
    /\ Insert(Head(rerun.pending))
    /\ rerun' = [rerun EXCEPT !.pending = Tail(@)]

Next ==
    \/ \E statement \in Statements(family) :
          ~rerun.again /\ Insert(statement) /\ UNCHANGED rerun
    \/ Reinsert
    \/ (rerun.again => rerun.pending = <<>>) /\ StartTree /\ UNCHANGED rerun
    \/ Process /\ UNCHANGED rerun
    \/ Finish /\ UNCHANGED rerun
    \/ Render
    \/ Strip

Spec == Init /\ [][Next]_vars

(***************************************************************************)
(* HypothesesMap on its own: a sequence of insert calls on a fresh map.    *)
(***************************************************************************)
MaxInserts == 3
HypothesisPool == {"Speed ~ Layout", "Speed ~ Age", "Error ~ Layout"}

InitMap ==
    /\ family = "kbd"
    /\ stmts = <<>>
    /\ pc = "map"
    /\ graph_nodes = <<>>
    /\ graph_edges = {}
    /\ lines = EmptyMap
    /\ variables = EmptyMap
    /\ pos = 1
    /\ root = <<>>
    /\ expression_map = EmptyMap
    /\ hypotheses_map = <<>>
    /\ node_map = EmptyMap
    /\ refs = EmptyMap
    /\ visit = [called |-> FALSE, log |-> <<>>]
    /\ tree = [finished |-> FALSE, hypotheses |-> into_map(<<>>)]
    /\ line_tree = NoLineTree
    /\ html = NoHtml
    /\ rerun = NoRerun

\* hypotheses_map.insert(item), then a look at hypotheses_map.into_map().
MapInsert(item) ==
    /\ pc = "map"
    /\ Len(visit.log) < MaxInserts
    /\ LET inserted == HypothesesMapInsert(hypotheses_map, item) IN
       /\ hypotheses_map' = inserted.map
       /\ visit' = [called |-> TRUE, item |-> item, before |-> hypotheses_map,
                    id |-> inserted.id, log |-> Append(visit.log, item)]
       /\ tree' = [finished |-> FALSE, hypotheses |-> into_map(inserted.map)]
    /\ UNCHANGED <<family, stmts, pc, graph_vars, pos, root, expression_map, node_map, refs,
                   line_tree, html, rerun>>

NextMap == \E item \in SUBSET HypothesisPool : MapInsert(item)

SpecMap == InitMap /\ [][NextMap]_vars

(***************************************************************************)
(* The ordering of Hypotheses (hypotheses_tree.rs:115-137) on its own.  A   *)
(* hypothesis is written here as the list of its bytes, which is what the  *)
(* ordering of String compares.                                            *)
(***************************************************************************)
MaxMembers == 2

\* "a", "b", "aa", "ab", "ba", "bb"
StringPool == {<<97>>, <<98>>, <<97, 97>>, <<97, 98>>, <<98, 97>>, <<98, 98>>}
HypothesesSets == {set \in SUBSET StringPool : Cardinality(set) <= MaxMembers}

\* usize::cmp
usize_cmp(a, b) == IF a < b THEN "Less" ELSE IF a > b THEN "Greater" ELSE "Equal"

\* String::cmp: byte by byte; a proper prefix is the smaller string.
RECURSIVE string_cmp(_, _)
string_cmp(a, b) ==
    IF Len(a) = 0 \/ Len(b) = 0 THEN usize_cmp(Len(a), Len(b))
    ELSE IF usize_cmp(a[1], b[1]) # "Equal" THEN usize_cmp(a[1], b[1])
    ELSE string_cmp(Tail(a), Tail(b))

\* Vec<&String>::cmp: element by element; a proper prefix is the smaller list.
RECURSIVE vec_cmp(_, _)
vec_cmp(a, b) ==
    IF Len(a) = 0 \/ Len(b) = 0 THEN usize_cmp(Len(a), Len(b))
    ELSE IF string_cmp(a[1], b[1]) # "Equal" THEN string_cmp(a[1], b[1])
    ELSE vec_cmp(Tail(a), Tail(b))

\* self.0.iter().collect() followed by sort_unstable(): the members in
\* ascending order.
RECURSIVE sorted_members(_)
sorted_members(set) ==
    IF set = {} THEN <<>>
    ELSE LET least == CHOOSE x \in set : \A y \in set : string_cmp(x, y) # "Greater" IN
         <<least>> \o sorted_members(set \ {least})

\* A variant that compares the sorted member lists whatever their lengths.
cmp_members_only(mine, others) ==
    vec_cmp(sorted_members(mine), sorted_members(others))

\* Hypotheses::cmp
cmp(mine, others) ==
    IF usize_cmp(Cardinality(mine), Cardinality(others)) = "Equal"
    THEN vec_cmp(sorted_members(mine), sorted_members(others))
    ELSE usize_cmp(Cardinality(mine), Cardinality(others))

InitCmp ==
    /\ family = "kbd"
    /\ stmts = <<>>
    /\ pc = "cmp"
    /\ graph_nodes = <<>>
    /\ graph_edges = {}
    /\ lines = EmptyMap
    /\ variables = EmptyMap
    /\ pos = 1
    /\ root = <<>>
    /\ expression_map = EmptyMap
    /\ hypotheses_map = <<>>
    /\ node_map = EmptyMap
    /\ refs = EmptyMap
    /\ visit \in {[called |-> FALSE, mine |-> mine, others |-> others] :
                    mine \in HypothesesSets, others \in HypothesesSets}
    /\ tree = NoTree
    /\ line_tree = NoLineTree
    /\ html = NoHtml
    /\ rerun = NoRerun

\* mine.cmp(&others)
Compare ==
    /\ pc = "cmp"
    /\ ~visit.called
    /\ visit' = [called |-> TRUE, mine |-> visit.mine, others |-> visit.others,
                 ordering |-> cmp(visit.mine, visit.others)]
    /\ UNCHANGED <<family, stmts, pc, graph_vars, pos, root, expression_map, hypotheses_map,
                   node_map, refs, tree, line_tree, html, rerun>>

NextCmp == Compare

SpecCmp == InitCmp /\ [][NextCmp]_vars

(***************************************************************************)
(* Functions of the parser on their own: extract_variable_name             *)
(* (parser.rs:125-147) on expressions built by wrapping, and the splitting *)
(* of an assignment's elements in parse_line (parser.rs:270-283).          *)
(***************************************************************************)
MaxWraps == 2
MaxElements == 4

Atoms == {Variable("x"), Variable("names"), Constant("1"), Call(Variable("names"), <<>>)}

\* The expressions that hold a given expression as one operand.
Wraps(e) ==
    {Column(e, Variable("a")),
     Column(Variable("df"), e),
     Index(e, <<Some(Constant("1"))>>),
     ListIndex(e, <<Some(Constant("1"))>>),
     Call(Variable("colnames"), <<Arg(None, e)>>),
     Call(Variable("rownames"), <<Arg(None, e)>>),
     Call(Variable("names"), <<Arg(None, e)>>),
     Call(Variable("factor"), <<Arg(None, e)>>),
     Call(Variable("names"), <<Arg(None, e), Arg(None, Constant("1"))>>),
     Call(e, <<Arg(None, Variable("y"))>>),
     Prefix("-", e)}

RECURSIVE Wrapped(_)
Wrapped(depth) ==
    IF depth = 0 THEN Atoms
    ELSE Wrapped(depth - 1) \cup UNION {Wraps(e) : e \in Wrapped(depth - 1)}

\* The elements of an assignment, as parse_expression hands them over.
ElementPool == {Variable("a"), Variable("b"), Variable("c"), Constant("1")}

RECURSIVE ElementLists(_)
ElementLists(length) ==
    IF length = 0 THEN {<<>>}
    ELSE ElementLists(length - 1)
            \cup {Append(elements, e) : elements \in {l \in ElementLists(length - 1) : Len(l) = length - 1},
                                         e \in ElementPool}

\* A variant that takes the leftmost element as the right side.
parse_assignment_leftmost(elements) ==
    IF Len(elements) < 2 THEN Panic
    ELSE Assignment(elements[Len(elements)], SubSeq(elements, 2, Len(elements) - 1), elements[1])

\* parse_line, Rule::assignment: the last element is popped as the right
\* side, the first is removed as the left side, the rest are additional.
parse_assignment(elements) ==
    IF Len(elements) = 0 THEN Panic
    ELSE LET right == elements[Len(elements)]
             popped == SubSeq(elements, 1, Len(elements) - 1)
         IN IF Len(popped) = 0 THEN Panic
            ELSE Assignment(popped[1], Tail(popped), right)

(***************************************************************************)
(* parse_expression (parser.rs:351-439) on the pairs the grammar hands     *)
(* over.  A pair is its rule, its text (as_str) and its inner pairs.       *)
(***************************************************************************)
MaxParts == 3

Pair(rule, text, inner) == [rule |-> rule, text |-> text, inner |-> inner]

RECURSIVE parse_expression(_)
RECURSIVE apply_part(_, _)
RECURSIVE apply_parts(_, _)
RECURSIVE apply_parts_reversed(_, _)

\* parse_function_expression, the closure over the arguments.
parse_argument(arg) ==
    IF arg.rule = "named_argument"
    THEN Arg(Some(arg.inner[1].text), parse_expression(arg.inner[2]))
    ELSE Arg(None, parse_expression(arg.inner[1]))

\* parse_function_expression: a call of the expression read so far.
parse_function_expression(rexp, function_pair) ==
    LET function == function_pair.inner
    IN IF Len(function) = 0 THEN Call(rexp, <<>>)
       ELSE Call(rexp, [k \in 1..Len(function[1].inner) |-> parse_argument(function[1].inner[k])])

\* The slots of an index or a list index: an expression or nothing.
parse_indices(infix) ==
    [k \in 1..Len(infix.inner) |->
        IF infix.inner[k].rule = "expression"
        THEN Some(parse_expression(infix.inner[k]))
        ELSE None]

\* One round of the loop over the pairs that follow the head.
apply_part(rexp, infix) ==
    CASE infix.rule = "function_call" -> parse_function_expression(rexp, infix)
      [] infix.rule = "column" -> Column(rexp, parse_expression(infix))
      [] infix.rule = "index" -> Index(rexp, parse_indices(infix))
      [] infix.rule = "list_index" -> ListIndex(rexp, parse_indices(infix))
      [] infix.rule = "infix" -> Infix(infix.inner[1].text, rexp, parse_expression(infix.inner[2]))
      [] infix.rule = "formula" -> TwoSided(rexp, parse_expression(infix))

\* A variant of the loop that takes the pairs from the last to the first.
apply_parts_reversed(rexp, parts) ==
    IF Len(parts) = 0 THEN rexp
    ELSE apply_part(apply_parts_reversed(rexp, Tail(parts)), Head(parts))

\* The loop over the pairs that follow the head, in the order of the text.
apply_parts(rexp, parts) ==
    IF Len(parts) = 0 THEN rexp
    ELSE apply_parts(apply_part(rexp, Head(parts)), Tail(parts))

\* The expression of the first inner pair.
parse_head(first) ==
    CASE first.rule = "constant" -> Constant(first.text)
      [] first.rule = "identifier" -> Variable(first.text)
      [] first.rule = "prefix" ->
            Prefix(first.inner[1].text, parse_expression(first.inner[2]))
      [] first.rule = "formula" -> OneSided(parse_expression(first))
      [] first.rule = "expression" -> parse_expression(first)

parse_expression(expression_pair) ==
    LET whole_expression == expression_pair.inner
    IN apply_parts(parse_head(Head(whole_expression)), Tail(whole_expression))

\* Pairs as the grammar produces them for the texts of the tests.
Identifier(name) == Pair("identifier", name, <<>>)
Number(text) == Pair("constant", text, <<>>)
ExpressionOf(head) == Pair("expression", "", <<head>>)

HeadPool == {Identifier("get_matrix"), Identifier("item")}

PartPool ==
    {Pair("function_call", "", <<>>),
     Pair("function_call", "",
          <<Pair("arguments", "", <<Pair("unnamed_argument", "", <<ExpressionOf(Number("10"))>>)>>)>>),
     Pair("column", "", <<Identifier("column")>>),
     Pair("index", "", <<ExpressionOf(Number("1"))>>),
     Pair("index", "", <<ExpressionOf(Identifier("empty")), Pair("empty", "", <<>>)>>),
     Pair("index", "", <<Pair("empty", "", <<>>), ExpressionOf(Number("1"))>>),
     Pair("list_index", "", <<ExpressionOf(Number("1"))>>)}

RECURSIVE PartLists(_)
PartLists(length) ==
    IF length = 0 THEN {<<>>}
    ELSE PartLists(length - 1)
            \cup {Append(parts, part) : parts \in {l \in PartLists(length - 1) : Len(l) = length - 1},
                                        part \in PartPool}

ExpressionPairs ==
    {Pair("expression", "", <<head>> \o parts) : head \in HeadPool, parts \in PartLists(MaxParts)}

(***************************************************************************)
(* Printing and parsing again.  The text is a list of tokens, whitespace  *)
(* between tokens being insignificant.  fmt is Display (parser.rs:149-213) *)
(* token by token.  The rules of the grammar follow the description of the *)
(* parser and the tests (parser.rs:714-785, 875-940): an expression is a   *)
(* head followed by parts, a head in parentheses is an expression, and the *)
(* right side of an infix operator is an expression, which makes a chain   *)
(* of operators nest to the right.                                         *)
(***************************************************************************)
MaxNesting == 2

RECURSIVE Flatten(_, _)
Flatten(lists, sep) ==
    IF Len(lists) = 0 THEN <<>>
    ELSE IF Len(lists) = 1 THEN lists[1]
    ELSE lists[1] \o sep \o Flatten(Tail(lists), sep)

RECURSIVE fmt(_)
fmt(e) ==
    CASE e.type = "Constant" -> <<e.text>>
      [] e.type = "Variable" -> <<e.name>>
      [] e.type = "Call" ->
            fmt(e.fn) \o <<"(">>
                \o Flatten([i \in DOMAIN e.args |->
                              IF e.args[i].name.some
                              THEN <<e.args[i].name.val, "=">> \o fmt(e.args[i].value)
                              ELSE fmt(e.args[i].value)], <<",">>)
                \o <<")">>
      [] e.type = "Infix" -> fmt(e.left) \o <<e.op>> \o fmt(e.right)
      [] e.type = "Prefix" -> <<e.op>> \o fmt(e.exp)

NumberTexts == {"1", "2", "3"}
Identifiers == {"f", "a"}
Operators == {"+"}
PrefixOperators == {"+", "-"}

\* The end of a line of the text, as a token.
NEWLINE == "\n"

\* The tokens after one end of line, where a statement may go on to the next
\* line.
skip_newline(tokens) ==
    IF Len(tokens) > 0 /\ Head(tokens) = NEWLINE THEN Tail(tokens) ELSE tokens

NoMatch == [ok |-> FALSE]
Match(pairs, rest) == [ok |-> TRUE, pairs |-> pairs, rest |-> rest]

RECURSIVE rule_expression(_)
RECURSIVE rule_parts(_)
RECURSIVE rule_arguments(_)

\* The closing parenthesis of an expression in parentheses.
closing(inside, rest) ==
    IF Len(rest) > 0 /\ Head(rest) = ")" THEN Match(inside.pairs, Tail(rest)) ELSE NoMatch

\* An expression in parentheses as a head, once its inside has been read.
parenthesised(inside) ==
    IF inside.ok THEN closing(inside, skip_newline(inside.rest)) ELSE NoMatch

\* Rule::prefix, once its operand has been read: the operator and the
\* expression it stands before.
prefix_of(operator, operand) ==
    IF operand.ok
    THEN Match(<<Pair("prefix", "", <<Pair("operator", operator, <<>>)>> \o operand.pairs)>>,
               operand.rest)
    ELSE NoMatch

\* The head of an expression: a constant, an identifier, a prefix operator
\* before an expression or an expression in parentheses.
rule_head(tokens) ==
    IF Len(tokens) = 0 THEN NoMatch
    ELSE IF Head(tokens) \in NumberTexts THEN Match(<<Number(Head(tokens))>>, Tail(tokens))
    ELSE IF Head(tokens) \in Identifiers THEN Match(<<Identifier(Head(tokens))>>, Tail(tokens))
    ELSE IF Head(tokens) \in PrefixOperators
         THEN prefix_of(Head(tokens), rule_expression(Tail(tokens)))
    ELSE IF Head(tokens) = "("
         THEN parenthesised(rule_expression(skip_newline(Tail(tokens))))
    ELSE NoMatch

\* An argument followed by the arguments after its comma.
argument_and(argument, others) ==
    IF others.ok THEN Match(<<argument>> \o others.pairs, others.rest)
    ELSE NoMatch

\* What follows the value of an argument: the closing parenthesis or a comma
\* and further arguments.
argument_end(value, rest) ==
    IF Len(rest) = 0 THEN NoMatch
    ELSE IF Head(rest) = ")"
         THEN Match(<<Pair("unnamed_argument", "", value.pairs)>>, Tail(rest))
    ELSE IF Head(rest) = ","
         THEN argument_and(Pair("unnamed_argument", "", value.pairs),
                           rule_arguments(skip_newline(Tail(rest))))
    ELSE NoMatch

\* An argument, once its value has been read.
argument_of(value) ==
    IF ~value.ok THEN NoMatch ELSE argument_end(value, skip_newline(value.rest))

\* The arguments of a call up to the closing parenthesis, separated by commas.
rule_arguments(tokens) == argument_of(rule_expression(tokens))

\* A part and the parts that follow it.
part_and(part, following) == Match(<<part>> \o following.pairs, following.rest)

\* A call with arguments, once they have been read.
call_of(arguments, tokens) ==
    IF ~arguments.ok THEN Match(<<>>, tokens)
    ELSE part_and(Pair("function_call", "", <<Pair("arguments", "", arguments.pairs)>>),
                  rule_parts(arguments.rest))

\* An infix operator, once its right side has been read.
infix_of(operator, right, tokens) ==
    IF ~right.ok THEN Match(<<>>, tokens)
    ELSE part_and(Pair("infix", "", <<Pair("operator", operator, <<>>)>> \o right.pairs),
                  rule_parts(right.rest))

\* A call, once its opening parenthesis has been read: no arguments, or
\* arguments up to the closing parenthesis.
call_part(inner, tokens) ==
    IF Len(inner) > 0 /\ Head(inner) = ")"
    THEN part_and(Pair("function_call", "", <<>>), rule_parts(Tail(inner)))
    ELSE call_of(rule_arguments(inner), tokens)

\* The parts that follow a head, as many as match: calls and infix
\* operators with an expression as right side.  The arguments of a call may
\* span lines, and the right side of an operator may stand on the next line.
rule_parts(tokens) ==
    IF Len(tokens) = 0 THEN Match(<<>>, tokens)
    ELSE IF Head(tokens) = "(" THEN call_part(skip_newline(Tail(tokens)), tokens)
    ELSE IF Head(tokens) \in Operators
         THEN infix_of(Head(tokens), rule_expression(skip_newline(Tail(tokens))), tokens)
    ELSE Match(<<>>, tokens)

\* A head and the parts that follow it.
head_and(head, parts) ==
    Match(<<Pair("expression", "", head.pairs \o parts.pairs)>>, parts.rest)

head_of(head) ==
    IF ~head.ok THEN NoMatch ELSE head_and(head, rule_parts(head.rest))

\* Rule::expression: a head and the parts that follow it.
rule_expression(tokens) == head_of(rule_head(tokens))

text_of(whole) ==
    IF whole.ok /\ whole.rest = <<>> THEN Some(parse_expression(whole.pairs[1]))
    ELSE None

\* The expression of a text that is one expression, None when the grammar
\* does not match the whole of it.
parse_text(tokens) == text_of(rule_expression(tokens))

\* Expressions as the tests build them: numbers, sums nested on either side
\* and calls.
RECURSIVE Nested(_)
Nested(depth) ==
    IF depth = 0 THEN {Constant(c) : c \in NumberTexts}
    ELSE Nested(depth - 1)
            \cup {Infix("+", left, right) : left, right \in Nested(depth - 1)}
            \cup {Call(Variable("f"), <<Arg(None, e)>>) : e \in Nested(depth - 1)}
            \cup {Prefix("-", e) : e \in Nested(depth - 1)}

InitParser ==
    /\ family = "kbd"
    /\ stmts = <<>>
    /\ pc \in {"name", "assignment", "expression", "round_trip"}
    /\ graph_nodes = <<>>
    /\ graph_edges = {}
    /\ lines = EmptyMap
    /\ variables = EmptyMap
    /\ pos = 1
    /\ root = <<>>
    /\ expression_map = EmptyMap
    /\ hypotheses_map = <<>>
    /\ node_map = EmptyMap
    /\ refs = EmptyMap
    /\ CASE pc = "name" ->
               visit \in {[called |-> FALSE, exp |-> e] : e \in Wrapped(MaxWraps)}
         [] pc = "assignment" ->
               visit \in {[called |-> FALSE, elements |-> l] : l \in ElementLists(MaxElements)}
         [] pc = "expression" ->
               visit \in {[called |-> FALSE, pair |-> p] : p \in ExpressionPairs}
         [] pc = "round_trip" ->
               visit \in {[called |-> FALSE, exp |-> e] : e \in Nested(MaxNesting)}
    /\ tree = NoTree
    /\ line_tree = NoLineTree
    /\ html = NoHtml
    /\ rerun = NoRerun

\* exp.extract_variable_name()
ExtractVariableName ==
    /\ pc = "name"
    /\ ~visit.called
    /\ visit' = [called |-> TRUE, exp |-> visit.exp, name |-> extract_variable_name(visit.exp)]
    /\ UNCHANGED <<family, stmts, pc, graph_vars, pos, root, expression_map, hypotheses_map,
                   node_map, refs, tree, line_tree, html, rerun>>

\* The statement made from the elements of an assignment.
ParseAssignment ==
    /\ pc = "assignment"
    /\ ~visit.called
    /\ visit' = [called |-> TRUE, elements |-> visit.elements,
                 statement |-> parse_assignment(visit.elements)]
    /\ UNCHANGED <<family, stmts, pc, graph_vars, pos, root, expression_map, hypotheses_map,
                   node_map, refs, tree, line_tree, html, rerun>>

\* parse_expression(expression_pair)
ParseExpression ==
    /\ pc = "expression"
    /\ ~visit.called
    /\ visit' = [called |-> TRUE, pair |-> visit.pair, rexp |-> parse_expression(visit.pair)]
    /\ UNCHANGED <<family, stmts, pc, graph_vars, pos, root, expression_map, hypotheses_map,
                   node_map, refs, tree, line_tree, html, rerun>>

\* The expression is printed and the text is parsed.
RoundTrip ==
    /\ pc = "round_trip"
    /\ ~visit.called
    /\ visit' = [called |-> TRUE, exp |-> visit.exp, text |-> fmt(visit.exp),
                 parsed |-> parse_text(fmt(visit.exp))]
    /\ UNCHANGED <<family, stmts, pc, graph_vars, pos, root, expression_map, hypotheses_map,
                   node_map, refs, tree, line_tree, html, rerun>>

NextParser == ExtractVariableName \/ ParseAssignment \/ ParseExpression \/ RoundTrip

SpecParser == InitParser /\ [][NextParser]_vars

(***************************************************************************)
(* parse (parser.rs:246-255), parse_line (parser.rs:257-349) and main      *)
(* (main.rs:26-46) on a source text.  The text is a list of lines, a line  *)
(* a list of tokens; a blank line has none.  The grammar matches the whole *)
(* text or fails: a blank line is Rule::empty, any other line is a         *)
(* Rule::line holding a comment or a statement with an optional comment,   *)
(* and the end of the input follows the last line.  A statement goes on to *)
(* the next line of the text after an infix operator (the last text of the *)
(* test parses_infix_operators, parser.rs:881-882) and inside the          *)
(* parentheses of a call or of a head.                                     *)
(***************************************************************************)
CommentTexts == {"# First block", "# world"}
AssignmentOperators == {"<-"}

\* The text of the test parses_empty_lines line by line, lines the grammar
\* does not match, and a line that ends after an operator.
LinePool ==
    {<<>>,
     <<"# First block">>,
     <<"a", "<-", "1">>,
     <<"f", "(", "a", ")">>,
     <<"f", "(", ")", "# world">>,
     <<"a", "<-">>,
     <<"1", "+">>}

RECURSIVE Sources(_)
Sources(length) ==
    IF length = 0 THEN {<<>>}
    ELSE Sources(length - 1)
            \cup {Append(code, line) : code \in {c \in Sources(length - 1) : Len(c) = length - 1},
                                       line \in LinePool}

RECURSIVE rule_assigned(_)

\* An element of an assignment and the elements after it.
element_and(element, others) ==
    IF ~others.ok THEN NoMatch
    ELSE Match(element.pairs \o others.pairs, others.rest)

element_of(element) ==
    IF ~element.ok THEN NoMatch ELSE element_and(element, rule_assigned(element.rest))

\* Further expressions of an assignment, each after an assignment operator.
rule_assigned(tokens) ==
    IF Len(tokens) = 0 \/ Head(tokens) \notin AssignmentOperators THEN Match(<<>>, tokens)
    ELSE element_of(rule_expression(Tail(tokens)))

\* A statement, once its first expression and the assigned ones have been
\* read: an assignment when there are several, else an expression.
statement_of(first, others) ==
    IF ~others.ok THEN NoMatch
    ELSE IF Len(others.pairs) = 0
         THEN Match(<<Pair("statement", "", first.pairs)>>, first.rest)
    ELSE Match(<<Pair("statement", "", <<Pair("assignment", "", first.pairs \o others.pairs)>>)>>,
               others.rest)

first_of(first) ==
    IF ~first.ok THEN NoMatch ELSE statement_of(first, rule_assigned(first.rest))

\* Rule::statement: an assignment or an expression.
rule_statement(tokens) == first_of(rule_expression(tokens))

\* A line that holds a statement, once the statement has been read: the line
\* ends there or after one comment.
line_of(statement) ==
    IF ~statement.ok \/ Len(statement.rest) = 0 THEN NoMatch
    ELSE IF Head(statement.rest) = NEWLINE
         THEN Match(<<Pair("line", "", statement.pairs)>>, Tail(statement.rest))
    ELSE IF /\ Len(statement.rest) > 1
            /\ Head(statement.rest) \in CommentTexts
            /\ statement.rest[2] = NEWLINE
         THEN Match(<<Pair("line", "",
                           statement.pairs \o <<Pair("comment", Head(statement.rest), <<>>)>>)>>,
                    Tail(Tail(statement.rest)))
    ELSE NoMatch

\* The next line of the text up to its end: Rule::empty or Rule::line.
rule_line(tokens) ==
    IF Len(tokens) = 0 THEN NoMatch
    ELSE IF Head(tokens) = NEWLINE THEN Match(<<Pair("empty", "", <<>>)>>, Tail(tokens))
    ELSE IF Head(tokens) \in CommentTexts
         THEN IF Len(tokens) > 1 /\ tokens[2] = NEWLINE
              THEN Match(<<Pair("line", "", <<Pair("comment", Head(tokens), <<>>)>>)>>,
                         Tail(Tail(tokens)))
              ELSE NoMatch
    ELSE line_of(rule_statement(tokens))

\* The text as the grammar reads it: the tokens of the lines, every line
\* with its end.
RECURSIVE Text(_)
Text(code) ==
    IF Len(code) = 0 THEN <<>> ELSE Head(code) \o <<NEWLINE>> \o Text(Tail(code))

RECURSIVE rule_file(_)

line_and(line, others) ==
    IF ~others.ok THEN NoMatch ELSE Match(line.pairs \o others.pairs, <<>>)

file_of(line) ==
    IF ~line.ok THEN NoMatch ELSE line_and(line, rule_file(line.rest))

\* RParser::parse(Rule::file, code): the pairs of the lines and the end of
\* the input, or an error when some line does not match.
rule_file(tokens) ==
    IF Len(tokens) = 0 THEN Match(<<Pair("EOI", "", <<>>)>>, <<>>)
    ELSE file_of(rule_line(tokens))

\* parse_line, Rule::statement.
parse_statement(statement) ==
    CASE statement.rule = "expression" -> Expression(parse_expression(statement))
      [] statement.rule = "assignment" ->
            parse_assignment([k \in 1..Len(statement.inner) |-> parse_expression(statement.inner[k])])

\* parse_line, Rule::line: the first pair and the comment that may follow.
parse_first(first_pair) ==
    IF first_pair.rule = "statement" THEN parse_statement(first_pair.inner[1])
    ELSE Comment(first_pair.text)

parse_line(line_pair) ==
    IF line_pair.rule = "empty" THEN Empty
    ELSE IF Len(line_pair.inner) > 1
         THEN TailComment(parse_first(line_pair.inner[1]), line_pair.inner[2].text)
    ELSE parse_first(line_pair.inner[1])

Err == [ok |-> FALSE]
Ok(statements) == [ok |-> TRUE, statements |-> statements]

RECURSIVE filter_map(_)
RECURSIVE filter_map_lines_only(_)
RECURSIVE leading_lines(_)

\* A variant of the closure of parse that also drops the empty lines.
filter_map_lines_only(tokens) ==
    IF Len(tokens) = 0 THEN <<>>
    ELSE IF Head(tokens).rule \in {"EOI", "empty"} THEN filter_map_lines_only(Tail(tokens))
    ELSE <<parse_line(Head(tokens))>> \o filter_map_lines_only(Tail(tokens))

\* parse, the closure: every pair but the end of the input becomes a
\* statement, in the order of the pairs.
filter_map(tokens) ==
    IF Len(tokens) = 0 THEN <<>>
    ELSE IF Head(tokens).rule = "EOI" THEN filter_map(Tail(tokens))
    ELSE <<parse_line(Head(tokens))>> \o filter_map(Tail(tokens))

\* A variant of parse that returns the statements of the lines before the
\* first line the grammar does not match.
leading_line(line) ==
    IF ~line.ok THEN Ok(<<>>)
    ELSE Ok(<<parse_line(line.pairs[1])>> \o leading_lines(line.rest).statements)

leading_lines(tokens) ==
    IF Len(tokens) = 0 THEN Ok(<<>>) ELSE leading_line(rule_line(tokens))

parse_leading_lines(code) == leading_lines(Text(code))

\* parse, after the grammar has run.
parse_pairs(parse_result) ==
    IF ~parse_result.ok THEN Err ELSE Ok(filter_map(parse_result.pairs))

parse(code) == parse_pairs(rule_file(Text(code)))

InitMain ==
    /\ family = "kbd"
    /\ stmts = <<>>
    /\ pc = "main"
    /\ graph_nodes = <<>>
    /\ graph_edges = {}
    /\ lines = EmptyMap
    /\ variables = EmptyMap
    /\ pos = 1
    /\ root = <<>>
    /\ expression_map = EmptyMap
    /\ hypotheses_map = <<>>
    /\ node_map = EmptyMap
    /\ refs = EmptyMap
    /\ visit \in {[called |-> FALSE, code |-> code] : code \in Sources(MaxLines)}
    /\ tree = NoTree
    /\ line_tree = NoLineTree
    /\ html = NoHtml
    /\ rerun = NoRerun

\* main: Tractus::parse(&code)?  An error ends main.
ParseSource ==
    /\ pc = "main"
    /\ visit' = [called |-> TRUE, code |-> visit.code, result |-> parse(visit.code)]
    /\ pc' = IF visit'.result.ok THEN "graph" ELSE "parse_error"
    /\ UNCHANGED <<family, stmts, graph_vars, pos, root, expression_map, hypotheses_map,
                   node_map, refs, tree, line_tree, html, rerun>>

\* The statements of the text go into the dependency graph one by one.
InsertParsed ==
    /\ pc = "graph"
    /\ Len(stmts) < Len(visit.result.statements)
    /\ Insert(visit.result.statements[Len(stmts) + 1])

\* generate_hypothesis_tree once the graph holds every statement.
StartTreeOfSource ==
    /\ pc = "graph"
    /\ Len(stmts) = Len(visit.result.statements)
    /\ StartTree

\* short_function_name (main.rs:154-159): a call is shown by its callee only,
\* every other expression by its Display form.
short_function_name(e) ==
    IF e.type = "Call" THEN Display(e.fn) ELSE Display(e)

\* The label of a branch (main.rs:136-139).  The iteration of the tree is not
\* part of the sources at hand; it is taken to yield, for every branch, the
\* hypotheses of its id, and none for the empty set.
hypothesis_label(hypotheses) ==
    IF hypotheses = {} THEN {"No hypothesis."} ELSE hypotheses

\* render_hypothesis_tree (main.rs:131-152): one list item per branch, with
\* its label and one item per node; a node shows its short name and then the
\* rendering of its children.
RECURSIVE render_node(_, _)
render_hypothesis_tree(branches, hypotheses) ==
    [i \in DOMAIN branches |->
        [hypothesis |-> hypothesis_label(hypotheses[branches[i].id]),
         nodes |-> [j \in DOMAIN branches[i].nodes |->
                        render_node(branches[i].nodes[j], hypotheses)]]]

render_node(node, hypotheses) ==
    [expression |-> short_function_name(node.content),
     children |-> render_hypothesis_tree(node.children, hypotheses)]

\* render (main.rs:62-129): the document, of which the body is the rendering
\* of the tree.
render(hypotheses_tree) ==
    [rendered |-> TRUE,
     body |-> render_hypothesis_tree(hypotheses_tree.root, hypotheses_tree.hypotheses)]

\* main: let html = render(&hypotheses) (main.rs:33).
RenderHtml ==
    /\ pc = "done"
    /\ ~html.rendered
    /\ html' = render(tree)
    /\ UNCHANGED <<family, stmts, pc, graph_vars, pos, root, expression_map, hypotheses_map,
                   node_map, refs, visit, tree, line_tree, rerun>>

NextMain ==
    \/ ParseSource
    \/ InsertParsed /\ UNCHANGED rerun
    \/ StartTreeOfSource /\ UNCHANGED rerun
    \/ Process /\ UNCHANGED rerun
    \/ Finish /\ UNCHANGED rerun
    \/ RenderHtml

SpecMain == InitMain /\ [][NextMain]_vars

(***************************************************************************)
(* Properties                                                              *)
(***************************************************************************)
Finished == pc = "done"

\* The statements (by index) that have an expression, and their expressions.
Relevant == {i \in DOMAIN stmts : expression(stmts[i]).some}
ExpressionAt(i) == expression(stmts[i]).val
Expressions == {ExpressionAt(i) : i \in Relevant}

\* The hypothesis set recorded for an expression.
Recorded(exp) == hypotheses_map[expression_map[exp] + 1]

\* The largest element of a non-empty set of node ids.
Largest(nodes) == CHOOSE n \in nodes : \A m \in nodes : m <= n

\* The statement whose expression is about to be processed, if there is one.
AboutToProcess == pc = "tree" /\ pos \in Relevant

\* C1: whenever an expression with incoming edges is processed, the incoming
\* neighbour with the largest node id is already registered in node_map; a
\* parent can be missing only if some edge does not point forward.
C1_ParentRegistered ==
    (/\ AboutToProcess
     /\ Incoming(lines[ExpressionAt(pos)]) # {}
     /\ Largest(Incoming(lines[ExpressionAt(pos)])) \notin DOMAIN node_map)
        => \E d \in graph_edges : d[1] >= d[2]

\* The contents of the nodes of a finished tree, in depth-first order.
RECURSIVE TreeContents(_)
RECURSIVE NodesContents(_)
TreeContents(branches) ==
    IF Len(branches) = 0 THEN <<>>
    ELSE NodesContents(Head(branches).nodes) \o TreeContents(Tail(branches))
NodesContents(nodes) ==
    IF Len(nodes) = 0 THEN <<>>
    ELSE <<Head(nodes).content>> \o TreeContents(Head(nodes).children)
            \o NodesContents(Tail(nodes))

Occurrences(seq, x) == Cardinality({i \in DOMAIN seq : seq[i] = x})

\* C2 as claimed: in the finished tree every expression of a statement is
\* the content of exactly one node.
C2_ExactlyOnce ==
    Finished => \A exp \in Expressions : Occurrences(TreeContents(tree.root), exp) = 1

\* C2 as amended: in the finished tree every expression of a statement is the
\* content of exactly as many nodes as there are statements with that
\* expression, and the tree has no other node.
C2_OncePerStatement ==
    Finished =>
        /\ \A exp \in Expressions :
              Occurrences(TreeContents(tree.root), exp)
                = Cardinality({i \in Relevant : ExpressionAt(i) = exp})
        /\ Len(TreeContents(tree.root)) = Cardinality(Relevant)

\* A finished tree of a script in which one expression is the expression of
\* two statements and others of one.
C2_Witness ==
    /\ Finished
    /\ \E i, j \in Relevant : i # j /\ ExpressionAt(i) = ExpressionAt(j)
    /\ \E i \in Relevant : \A j \in Relevant : ExpressionAt(i) = ExpressionAt(j) => i = j

\* C3: after the tree is built, for every edge u -> v of the dependency graph
\* the set recorded for u's expression is a subset of the set recorded for
\* v's expression.
C3_Monotone ==
    Finished => \A d \in graph_edges :
        Recorded(graph_nodes[d[1]]) \subseteq Recorded(graph_nodes[d[2]])

\* C4: the set recorded for each expression is what is detected in it united
\* with the sets recorded for its direct predecessors, and nothing else.
C4_Exact ==
    Finished => \A exp \in Expressions :
        Recorded(exp) = detect_hypotheses(exp)
            \cup UNION {Recorded(graph_nodes[p]) : p \in Incoming(lines[exp])}

\* C5: the ids of the finished tree are the range [0, n), two expressions
\* have the same id exactly if their sets are equal, and no two ids name
\* equal sets.
C5_DenseUnique ==
    Finished =>
        /\ DOMAIN tree.hypotheses = 0 .. (Cardinality(DOMAIN tree.hypotheses) - 1)
        /\ {expression_map[exp] : exp \in Expressions} = DOMAIN tree.hypotheses
        /\ \A e1, e2 \in Expressions :
              (expression_map[e1] = expression_map[e2])
                <=> (tree.hypotheses[expression_map[e1]] = tree.hypotheses[expression_map[e2]])
        /\ \A i, j \in DOMAIN tree.hypotheses :
              tree.hypotheses[i] = tree.hypotheses[j] => i = j

\* The distinct items of a list, in the order of their first occurrence.
RECURSIVE Distinct(_)
Distinct(seq) ==
    IF Len(seq) = 0 THEN <<>>
    ELSE LET front == Distinct(SubSeq(seq, 1, Len(seq) - 1))
             last == seq[Len(seq)]
         IN IF \E i \in DOMAIN front : front[i] = last THEN front ELSE Append(front, last)

\* C6: after any sequence of insert calls, inserting a set equal to a stored
\* one returns the stored set's id and leaves the map as it was, inserting a
\* new set returns the previous length and stores it last, and into_map maps
\* id i to the i-th distinct set in insertion order.
C6_SequentialDedup ==
    (pc = "map" /\ visit.called) =>
        /\ (\E i \in DOMAIN visit.before : visit.before[i] = visit.item) =>
              /\ visit.id < Len(visit.before)
              /\ visit.before[visit.id + 1] = visit.item
              /\ hypotheses_map = visit.before
        /\ (\A i \in DOMAIN visit.before : visit.before[i] # visit.item) =>
              /\ visit.id = Len(visit.before)
              /\ hypotheses_map = Append(visit.before, visit.item)
        /\ DOMAIN tree.hypotheses = 0 .. (Len(Distinct(visit.log)) - 1)
        /\ \A i \in DOMAIN tree.hypotheses : tree.hypotheses[i] = Distinct(visit.log)[i + 1]

\* A map holding two sets into which the first of them was just inserted again.
C6_Witness ==
    /\ pc = "map" /\ visit.called
    /\ Len(visit.before) = 2
    /\ visit.item = visit.before[1]
    /\ visit.id = 0

\* The latest collect_hypotheses call found its expression already mapped.
Revisited == pc \in {"tree", "done", "panic_parent"} /\ visit.called /\ visit.known.some

\* C7: when an expression that already has an id is processed again, it keeps
\* the id, and the set under the id becomes the set before the visit united
\* with the inherited hypotheses; it does not shrink.
C7_RevisitExtends ==
    Revisited =>
        LET known == visit.known.val IN
        /\ expression_map[ExpressionAt(visit.at)] = known
        /\ hypotheses_map[known + 1] = visit.before[known + 1] \cup visit.inherited
        /\ visit.before[known + 1] \subseteq hypotheses_map[known + 1]
        /\ Len(hypotheses_map) = Len(visit.before)

\* A second visit that inherits a hypothesis the set did not hold before.
C7_Witness ==
    /\ Revisited
    /\ ~(visit.inherited \subseteq visit.before[visit.known.val + 1])
    /\ visit.before[visit.known.val + 1] \subseteq hypotheses_map[visit.known.val + 1]

\* The RefNode made by the latest iteration of the loop, when it completed.
Attached == pc = "tree" /\ visit.called /\ visit.at = pos - 1

\* The branch list under a key, or the empty list.
BranchList(branches, key) ==
    IF \E i \in DOMAIN branches : branches[i].id = key
    THEN branches[CHOOSE i \in DOMAIN branches : branches[i].id = key].nodes
    ELSE <<>>

EndsWith(list, item) == Len(list) > 0 /\ list[Len(list)] = item

\* The statement whose expression a graph node was inserted for: the n-th
\* statement that has an expression.
StatementOfNode(n) ==
    CHOOSE i \in Relevant : Cardinality({j \in Relevant : j <= i}) = n

\* What the loop does with the RefNode of an iteration that completed, with
\* the incoming neighbours taken, as the code does, from the node that
\* dependency_graph.id returns for the expression.
C8_AttachedById ==
    Attached =>
        LET ref_node == visit.at
            exp == ExpressionAt(visit.at)
            incoming == Incoming(lines[exp])
        IN /\ strong_count(ref_node) = 1
           /\ IF incoming = {}
              THEN EndsWith(BranchList(root, expression_map[exp]), ref_node)
              ELSE /\ Largest(incoming) \in DOMAIN node_map
                   /\ EndsWith(BranchList(refs[node_map[Largest(incoming)]].children,
                                          expression_map[exp]), ref_node)

\* C8: each processed expression with incoming edges is appended to the
\* children of the node of its largest incoming neighbour, under the branch
\* of its own HypothesesId, and nowhere else; one without incoming edges is
\* appended to the root under the branch of its own HypothesesId.  The
\* incoming edges are those of the node inserted for the statement, the node
\* of a neighbour is the tree node made for the neighbour's statement, and no
\* processed expression is left unappended.
C8_ParentSelection ==
    /\ pc # "panic_parent"
    /\ Attached =>
          LET ref_node == visit.at
              exp == ExpressionAt(visit.at)
              incoming == Incoming(Cardinality({j \in Relevant : j <= visit.at}))
          IN /\ strong_count(ref_node) = 1
             /\ IF incoming = {}
                THEN EndsWith(BranchList(root, expression_map[exp]), ref_node)
                ELSE EndsWith(BranchList(refs[StatementOfNode(Largest(incoming))].children,
                                         expression_map[exp]), ref_node)

\* An expression whose only predecessor is the model has been appended under
\* the constant: a <- 1; a <- lm(Speed ~ Layout); f(a); a <- 1; f(a) with
\* the first f(a) processed.
C8_WitnessWrongParent ==
    /\ Attached
    /\ stmts = <<AOne, AModel, UseA, AOne, UseA>>
    /\ visit.at = 3
    /\ Incoming(3) = {2}
    /\ EndsWith(BranchList(refs[1].children, expression_map[UseA.exp]), 3)
    /\ refs[2].children = <<>>

\* An expression with two incoming neighbours, held by different RefNodes, has
\* been attached.
C8_Witness ==
    /\ Attached
    /\ \E m, n \in Incoming(lines[ExpressionAt(visit.at)]) :
          m < n /\ m \in DOMAIN node_map /\ node_map[m] # node_map[n]

\* C8, second case: an expression without incoming edges went to the root.
C8_WitnessRoot ==
    /\ Attached
    /\ Incoming(lines[ExpressionAt(visit.at)]) = {}

\* The branches of a finished tree against the RefNode branches they were
\* converted from: keys ascending, lists in the order of the statements that
\* made the nodes, each node holding its statement's expression.
RECURSIVE OrderedBranches(_, _)
OrderedBranches(branches, ref_branches) ==
    /\ Len(branches) = Len(ref_branches)
    /\ \A i \in 1 .. (Len(branches) - 1) : branches[i].id < branches[i + 1].id
    /\ \A i \in DOMAIN branches :
          /\ branches[i].id = ref_branches[i].id
          /\ Len(branches[i].nodes) = Len(ref_branches[i].nodes)
          /\ \A j \in 1 .. (Len(branches[i].nodes) - 1) :
                ref_branches[i].nodes[j] < ref_branches[i].nodes[j + 1]
          /\ \A j \in DOMAIN branches[i].nodes :
                /\ branches[i].nodes[j].content = ExpressionAt(ref_branches[i].nodes[j])
                /\ OrderedBranches(branches[i].nodes[j].children,
                                   refs[ref_branches[i].nodes[j]].children)

\* C9: in the finished tree the ids of every Branches map ascend, and the
\* nodes of every branch list are in the source order of their statements.
C9_BranchOrdering == Finished => OrderedBranches(tree.root, root)

\* A finished tree with a node whose branch of the larger id was made first,
\* and with a branch list of two nodes.
C9_Witness ==
    /\ Finished
    /\ \E r \in DOMAIN refs :
          /\ Len(refs[r].children) = 2
          /\ refs[r].children[1].nodes[1] > refs[r].children[2].nodes[1]
    /\ \E r \in DOMAIN refs : \E i \in DOMAIN refs[r].children :
          Len(refs[r].children[i].nodes) >= 2

\* The tree simple_hypothesis_tree expects (hypotheses_tree.rs:322-345).
KbdLeaf(statement) == [content |-> expression(statement).val, children |-> <<>>]
KbdExpected ==
    [finished |-> TRUE,
     root |-> <<[id |-> 0, nodes |-> <<
        [content |-> expression(KbdAssign).val,
         children |-> <<[id |-> 0, nodes |-> <<
            [content |-> expression(KbdFactor).val,
             children |-> <<[id |-> 0, nodes |-> <<KbdLeaf(KbdSummary)>>],
                            [id |-> 1, nodes |-> <<KbdLeaf(KbdPlot)>>]>>]>>]>>]>>]>>,
     hypotheses |-> (0 :> {} @@ 1 :> {"Speed ~ Layout"})]

\* C10: the four kbd statements give id 0 = {}, id 1 = {"Speed ~ Layout"},
\* the kbd assignment at the root under 0, the factor assignment under it
\* under 0, and under that plot under 1 and summary under 0; summary does not
\* inherit plot's hypothesis.
C10_KbdScenario ==
    (Finished /\ stmts = KbdProgram) =>
        /\ tree = KbdExpected
        /\ Recorded(expression(KbdSummary).val) = {}
        /\ Recorded(expression(KbdPlot).val) = {"Speed ~ Layout"}

\* The kbd script has been processed to the end.
C10_Witness == Finished /\ stmts = KbdProgram /\ Len(TreeContents(tree.root)) = 4

\* The node inserted for a statement that has an expression.
NodeOf(i) == Cardinality({j \in Relevant : j <= i})

\* The graph holds a node for every statement read so far that has one.
GraphBuilt == pc # "panic_function_name" /\ Len(graph_nodes) = Cardinality(Relevant)

\* C11: every edge of the dependency graph goes from a node inserted earlier
\* to a node inserted later; no edge goes backward, no node has an edge to
\* itself, and so the graph is acyclic.
C11_Acyclic ==
    \A d \in graph_edges :
        /\ d[1] \in DOMAIN graph_nodes
        /\ d[2] \in DOMAIN graph_nodes
        /\ d[1] < d[2]

\* A statement that reads the identifier it writes has got its edge from the
\* earlier writer, and a node has both an incoming and an outgoing edge.
C11_Witness ==
    /\ \E i \in Relevant :
          /\ Writes(stmts[i]).some
          /\ Writes(stmts[i]).val \in extract_dependencies(ExpressionAt(i))
          /\ Incoming(NodeOf(i)) # {}
    /\ \E d1, d2 \in graph_edges : d1[2] = d2[1]

\* The statements before statement i that wrote identifier v.
WritersBefore(i, v) == {j \in Relevant : j < i /\ Writes(stmts[j]) = Some(v)}

\* C12: every expression is the weight of exactly one node, and the id of
\* each statement's expression is the node inserted for that statement.
C12_OneNodePerExpression ==
    GraphBuilt => \A i \in Relevant :
        /\ Cardinality({n \in DOMAIN graph_nodes : graph_nodes[n] = ExpressionAt(i)}) = 1
        /\ id(ExpressionAt(i)) = Some(NodeOf(i))

\* What the lookups return instead: the graph holds one node per statement
\* that has an expression; the id of every such expression is defined and is
\* the node of the last statement with an equal expression, whose weight is
\* that expression.
C12_IdOfLatest ==
    GraphBuilt =>
        /\ \A i \in Relevant : graph_nodes[NodeOf(i)] = ExpressionAt(i)
        /\ \A i \in Relevant :
              /\ id(ExpressionAt(i)).some
              /\ id(ExpressionAt(i)).val \in DOMAIN graph_nodes
              /\ graph_nodes[id(ExpressionAt(i)).val] = ExpressionAt(i)
              /\ id(ExpressionAt(i)).val =
                    NodeOf(Largest({j \in Relevant : ExpressionAt(j) = ExpressionAt(i)}))

\* The tree is being built from a script in which two statements have equal
\* expressions and another statement's expression is its own.
C12_Witness ==
    /\ pc = "tree" /\ GraphBuilt
    /\ \E i, j \in Relevant : i < j /\ ExpressionAt(i) = ExpressionAt(j)
    /\ \E i \in Relevant : \A j \in Relevant : ExpressionAt(i) = ExpressionAt(j) => i = j

\* C13: the edges into the node of a statement come from the most recent
\* earlier writer of each identifier its expression reads, and from no other
\* node; a writer that a later writer shadows gets no edge for that read.
C13_LatestWriter ==
    GraphBuilt => \A i \in Relevant :
        Incoming(NodeOf(i)) =
            {NodeOf(Largest(WritersBefore(i, v))) :
                v \in {w \in extract_dependencies(ExpressionAt(i)) : WritersBefore(i, w) # {}}}

\* A statement reads an identifier that two earlier statements wrote, and the
\* first of them has no edge to it.
C13_Witness ==
    /\ GraphBuilt
    /\ \E i \in Relevant : \E v \in extract_dependencies(ExpressionAt(i)) :
          /\ Cardinality(WritersBefore(i, v)) >= 2
          /\ \E j \in WritersBefore(i, v) :
                /\ j < Largest(WritersBefore(i, v))
                /\ NodeOf(j) \notin Incoming(NodeOf(i))
                /\ NodeOf(Largest(WritersBefore(i, v))) \in Incoming(NodeOf(i))

\* The statements that are plain expressions, under tail comments or not.
PlainExpressions == {i \in Relevant : Unwrapped(stmts[i]).type = "Expression"}

\* C14: the node of a plain Expression statement never has an outgoing edge
\* in the dependency graph, and the tree node made for the statement never
\* has children, whatever statements follow it.  (It fails: the tree node of
\* a plain expression is registered under the graph node of a later
\* assignment with an equal right side and receives that node's readers.)
C14_ExpressionsAreLeaves ==
    GraphBuilt => \A i \in PlainExpressions :
        /\ \A d \in graph_edges : d[1] # NodeOf(i)
        /\ i \in DOMAIN refs => refs[i].children = <<>>

\* A finished tree in which a plain expression reads an identifier, another
\* plain expression that reads the same identifier follows it, and an
\* assignment has children.
C14_WitnessChildOfExpression ==
    /\ Finished
    /\ stmts = <<UseA, UseX, XFromUse, UseX>>
    /\ refs[1].children # <<>>
    /\ \A d \in graph_edges : d[1] # NodeOf(1)

C14_Witness ==
    /\ Finished
    /\ \E i, j \in PlainExpressions :
          /\ i < j
          /\ extract_dependencies(ExpressionAt(i)) \cap extract_dependencies(ExpressionAt(j))
                \cap DOMAIN variables # {}
    /\ \E r \in DOMAIN refs : refs[r].children # <<>>

\* The expressions a statement holds anywhere: its sides, its condition,
\* pattern and range, and those of the statements of its bodies.
RECURSIVE Held(_)
HeldInLines(body) == UNION {Held(body[k]) : k \in DOMAIN body}
Held(statement) ==
    CASE statement.type = "Assignment" ->
            {statement.lhs, statement.rhs} \cup {statement.additional[k] : k \in DOMAIN statement.additional}
      [] statement.type = "Expression" -> {statement.exp}
      [] statement.type = "TailComment" -> Held(statement.statement)
      [] statement.type = "If" ->
            {statement.cond} \cup HeldInLines(statement.body)
                \cup (IF statement.else_body.some THEN HeldInLines(statement.else_body.val) ELSE {})
      [] statement.type = "While" -> {statement.cond} \cup HeldInLines(statement.body)
      [] statement.type = "For" ->
            {statement.pattern, statement.range} \cup HeldInLines(statement.body)
      [] OTHER -> {}

ControlFlow == {i \in DOMAIN stmts : stmts[i].type \in {"If", "While", "For"}}

\* The right-hand sides and plain expressions of the top-level statements,
\* read off the statements' variants.
TopExpressions ==
    {Unwrapped(stmts[i]).rhs : i \in {j \in DOMAIN stmts : Unwrapped(stmts[j]).type = "Assignment"}}
        \cup {Unwrapped(stmts[i]).exp : i \in {j \in DOMAIN stmts : Unwrapped(stmts[j]).type = "Expression"}}

TreeHypotheses == UNION {tree.hypotheses[h] : h \in DOMAIN tree.hypotheses}

\* C15: expression() is the rhs of an Assignment, the expression of an
\* Expression, the wrapped statement's result for a TailComment, and None
\* for If, While, For, Empty, Comment and Library; so no expression held only
\* by an If, While or For is a node of the finished tree, and no hypothesis
\* that occurs only inside control flow is in the tree's hypotheses map.
C15_ExpressionOfStatement ==
    /\ \A i \in DOMAIN stmts :
          /\ stmts[i].type = "Assignment" => expression(stmts[i]) = Some(stmts[i].rhs)
          /\ stmts[i].type = "Expression" => expression(stmts[i]) = Some(stmts[i].exp)
          /\ stmts[i].type = "TailComment" =>
                expression(stmts[i]) = expression(stmts[i].statement)
          /\ stmts[i].type \in {"If", "While", "For", "Empty", "Comment", "Library"} =>
                expression(stmts[i]) = None
    /\ Finished =>
          /\ \A k \in DOMAIN TreeContents(tree.root) :
                TreeContents(tree.root)[k] \in TopExpressions
          /\ \A i \in ControlFlow : \A e \in Held(stmts[i]) :
                \A h \in detect_hypotheses(e) :
                    (\A top \in TopExpressions : h \notin detect_hypotheses(top))
                        => h \notin TreeHypotheses

\* A finished tree of a script with an If, a While and a For, whose bodies
\* hold hypotheses, and one plain expression: the tree has one node.
C15_Witness ==
    /\ Finished
    /\ \A type \in {"If", "While", "For"} : \E i \in DOMAIN stmts : stmts[i].type = type
    /\ \E i \in ControlFlow : \E e \in Held(stmts[i]) :
          detect_hypotheses(e) # {} /\ ~(detect_hypotheses(e) \subseteq TreeHypotheses)
    /\ Len(TreeContents(tree.root)) = 1

\* The second analysis, of the script without its rendering-only statements,
\* is finished.
Reanalysed == Finished /\ rerun.again

\* C16: the hypothesis tree of a statement list is the tree of the same list
\* without its Empty and Comment statements and with every statement taken
\* out of its TailComment; such statements add no node, no edge and no
\* hypothesis to the graph and the tree.
C16_RenderingOnly ==
    Reanalysed =>
        /\ stmts = Core(rerun.script)
        /\ tree = rerun.tree
        /\ graph_nodes = rerun.nodes
        /\ graph_edges = rerun.edges

\* Both analyses are finished for a script with an Empty, a Comment and a
\* statement under a TailComment that depends on an assignment.
C16_Witness ==
    /\ Reanalysed
    /\ \A type \in {"Empty", "Comment", "TailComment"} :
          \E i \in DOMAIN rerun.script : rerun.script[i].type = type
    /\ graph_edges # {}
    /\ Len(TreeContents(tree.root)) = 2
    /\ Len(stmts) = 2

\* Two sets have been compared.
Compared == pc = "cmp" /\ visit.called

\* The first position at which two lists of equal length differ, or 0.
FirstDifference(a, b) ==
    IF \A k \in DOMAIN a : a[k] = b[k] THEN 0
    ELSE CHOOSE k \in DOMAIN a : a[k] # b[k] /\ \A j \in 1 .. (k - 1) : a[j] = b[j]

Reverse(ordering) ==
    CASE ordering = "Less" -> "Greater"
      [] ordering = "Greater" -> "Less"
      [] OTHER -> ordering

\* C17: a set with fewer members is the smaller one; sets of equal size are
\* ordered by the first difference of their sorted member lists; cmp is Equal
\* exactly for equal sets; and the ordering is antisymmetric and transitive.
C17_ContentOrdering ==
    Compared =>
        LET mine == visit.mine
            others == visit.others
            ordering == visit.ordering
            k == FirstDifference(sorted_members(mine), sorted_members(others))
        IN /\ ordering \in {"Less", "Equal", "Greater"}
           /\ Cardinality(mine) < Cardinality(others) => ordering = "Less"
           /\ Cardinality(mine) > Cardinality(others) => ordering = "Greater"
           /\ Cardinality(mine) = Cardinality(others) =>
                 ordering = IF k = 0 THEN "Equal"
                            ELSE string_cmp(sorted_members(mine)[k], sorted_members(others)[k])
           /\ (ordering = "Equal") <=> (mine = others)
           /\ cmp(others, mine) = Reverse(ordering)
           /\ \A third \in HypothesesSets :
                 (ordering # "Greater" /\ cmp(others, third) # "Greater")
                    => /\ cmp(mine, third) # "Greater"
                       /\ (ordering = "Less" \/ cmp(others, third) = "Less")
                             => cmp(mine, third) = "Less"

\* A one-member set was compared with a two-member set whose least member is
\* smaller than its own, and found smaller.
C17_Witness ==
    /\ Compared
    /\ Cardinality(visit.mine) = 1 /\ Cardinality(visit.others) = 2
    /\ string_cmp(sorted_members(visit.mine)[1], sorted_members(visit.others)[1]) = "Greater"
    /\ visit.ordering = "Less"

\* Two different sets of two members with the same least member were compared.
C17_WitnessEqualSize ==
    /\ Compared
    /\ Cardinality(visit.mine) = 2 /\ Cardinality(visit.others) = 2
    /\ FirstDifference(sorted_members(visit.mine), sorted_members(visit.others)) = 2

\* The line tree of a finished tree has been made.
Rendered == Finished /\ line_tree.rendered

\* Branches of lines against the branches of expressions they were made
\* from: the same ids in the same order, lists of the same length, each line
\* the pretty-printed form of the expression at its place.
RECURSIVE SameShape(_, _)
SameShape(branches, line_branches) ==
    /\ Len(line_branches) = Len(branches)
    /\ \A i \in DOMAIN branches :
          /\ i \in DOMAIN line_branches
          /\ line_branches[i].id = branches[i].id
          /\ Len(line_branches[i].nodes) = Len(branches[i].nodes)
          /\ \A j \in DOMAIN branches[i].nodes :
                /\ j \in DOMAIN line_branches[i].nodes
                /\ line_branches[i].nodes[j].content = Display(branches[i].nodes[j].content)
                /\ SameShape(branches[i].nodes[j].children, line_branches[i].nodes[j].children)

\* C18: the LineTree has the shape of the HypothesisTree it is made from: the
\* same branch ids at every level, the same number and order of nodes in
\* every branch list, each content the pretty-printed form of the node's
\* expression; and it holds the same hypotheses map.
C18_LineTreeShape ==
    Rendered =>
        /\ SameShape(tree.root, line_tree.root)
        /\ line_tree.hypotheses = tree.hypotheses

\* The line tree of the kbd script: four lines on three levels, two branches
\* under the second.
C18_Witness ==
    /\ Rendered
    /\ stmts = KbdProgram
    /\ TreeContents(line_tree.root) =
          <<"data frame", "factor(kbd$ParticipantID)", "summary(kbd)",
            "plot(Speed ~ Layout, data = kbd)">>
    /\ Len(line_tree.root[1].nodes[1].children[1].nodes[1].children) = 2

\* extract_variable_name has been applied to an expression.
Extracted == pc = "name" /\ visit.called

\* C19 as claimed: the name of a Variable; the result for the left operand of
\* a Column or an Index; the result for the argument of a call of colnames,
\* rownames or names with exactly one argument; None for every other
\* expression.
C19_AsClaimed ==
    Extracted =>
        LET e == visit.exp IN
        visit.name =
            CASE e.type = "Variable" -> Some(e.name)
              [] e.type \in {"Column", "Index"} -> extract_variable_name(e.left)
              [] e.type = "Call" /\ e.fn \in {Variable(f) : f \in valid_functions}
                    /\ Len(e.args) = 1 -> extract_variable_name(e.args[1].value)
              [] OTHER -> None

\* C19 as amended: as claimed, except that the called function is the name
\* extract_variable_name gives for the callee (so a column or an index of
\* colnames, rownames or names counts as that function), and that a call
\* whose callee has no such name makes the function abort instead of
\* returning None.
C19_ExtractVariableName ==
    Extracted =>
        LET e == visit.exp IN
        visit.name =
            CASE e.type = "Variable" -> Some(e.name)
              [] e.type \in {"Column", "Index"} -> extract_variable_name(e.left)
              [] e.type = "Call" /\ ~extract_variable_name(e.fn).some -> Panic
              [] e.type = "Call" /\ extract_variable_name(e.fn).some
                    /\ extract_variable_name(e.fn).val \in valid_functions
                    /\ Len(e.args) = 1 -> extract_variable_name(e.args[1].value)
              [] OTHER -> None

\* colnames(x[1]) gave x.
C19_Witness ==
    /\ Extracted
    /\ visit.exp = Call(Variable("colnames"),
                        <<Arg(None, Index(Variable("x"), <<Some(Constant("1"))>>))>>)
    /\ visit.name = Some("x")

\* names(x, 1), a call of another arity, gave None.
C19_WitnessArity ==
    /\ Extracted
    /\ visit.exp = Call(Variable("names"), <<Arg(None, Variable("x")), Arg(None, Constant("1"))>>)
    /\ visit.name = None

\* The elements of an assignment have been made into a statement.
Split == pc = "assignment" /\ visit.called

\* C20: n >= 2 elements e1 .. en become Assignment(e1, [e2 .. e(n-1)], en),
\* the additional left sides in source order and none of them for n = 2;
\* fewer than two elements give no Assignment, so that no assignment has an
\* empty left side.
C20_MultiAssignment ==
    Split =>
        LET elements == visit.elements
            n == Len(visit.elements)
            statement == visit.statement
        IN /\ n >= 2 =>
                 /\ statement # Panic
                 /\ statement.type = "Assignment"
                 /\ statement.lhs = elements[1]
                 /\ statement.rhs = elements[n]
                 /\ Len(statement.additional) = n - 2
                 /\ \A k \in 1 .. (n - 2) :
                       k \in DOMAIN statement.additional /\ statement.additional[k] = elements[k + 1]
                 /\ expression(statement) = Some(elements[n])
           /\ n < 2 => statement = Panic

\* a=b=c=1 became Assignment(a, [b, c], 1).
C20_Witness ==
    /\ Split
    /\ visit.elements = <<Variable("a"), Variable("b"), Variable("c"), Constant("1")>>
    /\ visit.statement = Assignment(Variable("a"), <<Variable("b"), Variable("c")>>, Constant("1"))

\* a <- 1 became Assignment(a, [], 1).
C20_WitnessPair ==
    /\ Split
    /\ visit.elements = <<Variable("a"), Constant("1")>>
    /\ visit.statement = Assignment(Variable("a"), <<>>, Constant("1"))

\* The expression pair has been parsed.
Parsed == pc = "expression" /\ visit.called

\* The expression of the head and of the first parts of a parsed pair.
ParsedUpTo(count) ==
    parse_expression([visit.pair EXCEPT !.inner = SubSeq(visit.pair.inner, 1, count + 1)])

\* The slots of an index keep their positions, an empty slot being None.
SlotsKept(infix, indices) ==
    /\ Len(indices) = Len(infix.inner)
    /\ \A k \in 1..Len(indices) :
          IF infix.inner[k].rule = "empty"
          THEN indices[k] = None
          ELSE indices[k] = Some(parse_expression(infix.inner[k]))

\* C21: the parts that follow the head of an expression are applied from
\* left to right, each wrapping the expression read so far: the outermost
\* constructor belongs to the last part and holds the expression of the head
\* and the parts before it; a call keeps its arguments, an index its slots with
\* None at the position of every empty slot.
C21_PostfixComposition ==
    Parsed =>
        LET parts == Tail(visit.pair.inner)
            count == Len(parts)
            rexp == visit.rexp
        IN IF count = 0 THEN rexp = Variable(Head(visit.pair.inner).text)
           ELSE LET last == parts[count]
                    before == ParsedUpTo(count - 1)
                IN CASE last.rule = "function_call" ->
                            /\ rexp.type = "Call"
                            /\ rexp.fn = before
                            /\ Len(rexp.args) = (IF Len(last.inner) = 0 THEN 0 ELSE Len(last.inner[1].inner))
                            /\ \A k \in 1..Len(rexp.args) : rexp.args[k].name = None
                     [] last.rule = "column" ->
                            rexp = Column(before, Variable(last.inner[1].text))
                     [] last.rule = "index" ->
                            /\ rexp.type = "Index"
                            /\ rexp.left = before
                            /\ SlotsKept(last, rexp.indices)
                     [] last.rule = "list_index" ->
                            /\ rexp.type = "ListIndex"
                            /\ rexp.left = before
                            /\ SlotsKept(last, rexp.indices)

\* get_matrix()$column[1] has been parsed.
C21_Witness ==
    /\ Parsed
    /\ visit.pair = Pair("expression", "",
                         <<Identifier("get_matrix"),
                           Pair("function_call", "", <<>>),
                           Pair("column", "", <<Identifier("column")>>),
                           Pair("index", "", <<ExpressionOf(Number("1"))>>)>>)
    /\ visit.rexp = Index(Column(Call(Variable("get_matrix"), <<>>), Variable("column")),
                          <<Some(Constant("1"))>>)

\* A call of a call, and an index with an empty slot, have been parsed.
C21_WitnessCallOfCall ==
    /\ Parsed
    /\ visit.rexp = Call(Call(Variable("get_matrix"), <<>>), <<Arg(None, Constant("10"))>>)

C21_WitnessEmptySlot ==
    /\ Parsed
    /\ visit.rexp = Index(Variable("item"), <<Some(Variable("empty")), None>>)

\* An expression has been printed and its text parsed.
RoundTripped == pc = "round_trip" /\ visit.called

\* C22: parsing the printed form of an expression of the tests, among them
\* ((1 + 2) + 3), yields an expression structurally equal to it.
C22_RoundTrip ==
    RoundTripped => visit.parsed = Some(visit.exp)

\* ((1 + 2) + 3) is printed as 1 + 2 + 3 and parsed as 1 + (2 + 3).
C22_WitnessLeftNested ==
    /\ RoundTripped
    /\ visit.exp = Infix("+", Infix("+", Constant("1"), Constant("2")), Constant("3"))
    /\ visit.text = <<"1", "+", "2", "+", "3">>
    /\ visit.parsed = Some(Infix("+", Constant("1"), Infix("+", Constant("2"), Constant("3"))))

\* main has parsed the text.
SourceParsed == pc # "main" /\ "result" \in DOMAIN visit

\* Nothing of the pipeline after the parser exists.
NothingProduced ==
    /\ stmts = <<>>
    /\ graph_nodes = <<>>
    /\ graph_edges = {}
    /\ expression_map = EmptyMap
    /\ hypotheses_map = <<>>
    /\ tree = NoTree
    /\ line_tree = NoLineTree
    /\ html = NoHtml

\* The number of parentheses a line leaves open.
RECURSIVE Unclosed(_)
Unclosed(line) ==
    IF Len(line) = 0 THEN 0
    ELSE (CASE Head(line) = "(" -> 1 [] Head(line) = ")" -> -1 [] OTHER -> 0) + Unclosed(Tail(line))

\* A line after which the statement is not over: it ends after an infix
\* operator or inside parentheses.
Continues(line) ==
    Len(line) > 0 /\ (line[Len(line)] \in Operators \/ Unclosed(line) > 0)

\* The top-level lines of a text: every line of the text, a line after which
\* the statement is not over being joined with the line that follows it
\* unless that line is blank.
RECURSIVE JoinedLines(_, _)
JoinedLines(open, code) ==
    IF Len(code) = 0 THEN (IF Len(open) = 0 THEN <<>> ELSE <<open>>)
    ELSE IF Len(open) > 0 /\ Head(code) = <<>> THEN <<open>> \o JoinedLines(<<>>, code)
    ELSE IF Continues(open \o Head(code)) THEN JoinedLines(open \o Head(code), Tail(code))
    ELSE <<open \o Head(code)>> \o JoinedLines(<<>>, Tail(code))

TopLevelLines(code) == JoinedLines(<<>>, code)

\* C23: parse returns either an error that carries no statements or the
\* statements of the whole text, one for every top-level line; after an
\* error main has ended and neither a dependency graph nor a tree exists, and
\* a graph or a tree exists only after a text that parsed.
C23_AllOrNothing ==
    /\ SourceParsed =>
          IF visit.result.ok
          THEN /\ Len(visit.result.statements) = Len(TopLevelLines(visit.code))
               /\ \A k \in 1..Len(TopLevelLines(visit.code)) :
                     rule_line(Text(<<TopLevelLines(visit.code)[k]>>)).ok
               /\ pc # "parse_error"
          ELSE /\ "statements" \notin DOMAIN visit.result
               /\ \E line \in {TopLevelLines(visit.code)[k] : k \in 1..Len(TopLevelLines(visit.code))} :
                     ~rule_line(Text(<<line>>)).ok
               /\ pc = "parse_error"
    /\ pc \in {"main", "parse_error"} => NothingProduced

\* A text whose last line does not parse has ended main with an error.
C23_Witness ==
    /\ SourceParsed
    /\ visit.code = <<<<"a", "<-", "1">>, <<"f", "(", "a", ")">>, <<"a", "<-">>>>
    /\ visit.result = Err
    /\ pc = "parse_error"
    /\ NothingProduced

\* A text that parses has been turned into a tree.
C23_WitnessTree ==
    /\ pc = "done"
    /\ stmts = <<Assignment(Variable("a"), <<>>, Constant("1")),
                 Expression(Call(Variable("f"), <<Arg(None, Variable("a"))>>))>>
    /\ Len(graph_nodes) = 2

\* C24: parse yields one statement for every top-level line of the text, in
\* the order of the lines: the statement of a line is the one the line
\* yields on its own, a blank line of the text, wherever it stands, yields
\* Empty at its position and no other line does, and only the end of the
\* input yields nothing.
C24_PositionalLines ==
    (SourceParsed /\ visit.result.ok) =>
        LET statements == visit.result.statements
            code == visit.code
            top == TopLevelLines(visit.code)
        IN /\ Len(statements) = Len(top)
           /\ Len(rule_file(Text(code)).pairs) = Len(statements) + 1
           /\ \A k \in 1..Len(top) :
                 /\ statements[k] = parse_line(rule_line(Text(<<top[k]>>)).pairs[1])
                 /\ (top[k] = <<>>) <=> (statements[k] = Empty)
           /\ Cardinality({i \in 1..Len(code) : code[i] = <<>>})
                 = Cardinality({k \in 1..Len(statements) : statements[k] = Empty})

\* A text with a leading blank line, two consecutive blank lines and a
\* trailing one has been parsed.
C24_Witness ==
    /\ SourceParsed
    /\ visit.code = <<<<>>, <<"a", "<-", "1">>, <<>>, <<>>>>
    /\ visit.result = Ok(<<Empty, Assignment(Variable("a"), <<>>, Constant("1")), Empty, Empty>>)

\* A statement that goes on to the next line has been parsed: two lines of
\* the text, then a blank line, give two statements.
C24_WitnessContinued ==
    /\ SourceParsed
    /\ visit.code = <<<<"1", "+">>, <<"f", "(", "a", ")">>, <<>>>>
    /\ visit.result
          = Ok(<<Expression(Infix("+", Constant("1"),
                                  Call(Variable("f"), <<Arg(None, Variable("a"))>>))),
                 Empty>>)

C24_WitnessTailComment ==
    /\ SourceParsed
    /\ visit.result.ok
    /\ \E i \in 1..Len(visit.code) :
          visit.result.statements[i]
              = TailComment(Expression(Call(Variable("f"), <<>>)), "# world")

\* Every expression inside an expression, the expression itself included.
RECURSIVE Inside(_)
Inside(e) == {e} \cup UNION {Inside(sub) : sub \in SubExpressions(e)}

\* The formulae of either kind inside an expression.
TwoSidedInside(e) == {f \in Inside(e) : f.type = "Formula" /\ f.sided = "TwoSided"}
OneSidedInside(e) == {f \in Inside(e) : f.type = "Formula" /\ f.sided = "OneSided"}

\* C25: every hypothesis of every set of the finished tree is the printed
\* form of a two-sided formula inside the expression of some statement; the
\* printed form of a one-sided formula is in no set; and the printed form of
\* every two-sided formula inside an expression is in that expression's set.
C25_HypothesesAreFormulae ==
    Finished =>
        /\ \A i \in DOMAIN tree.hypotheses : \A h \in tree.hypotheses[i] :
              \E exp \in Expressions : \E f \in TwoSidedInside(exp) : h = Display(f)
        /\ \A exp \in Expressions : \A f \in OneSidedInside(exp) :
              \A i \in DOMAIN tree.hypotheses : Display(f) \notin tree.hypotheses[i]
        /\ \A exp \in Expressions : \A f \in TwoSidedInside(exp) :
              Display(f) \in tree.hypotheses[expression_map[exp]]

\* A finished tree of a script with a one-sided formula, a two-sided formula
\* two calls deep and one in an index, and a statement that inherits.
C25_Witness ==
    /\ Finished
    /\ stmts = <<TableOneSided, FitNested, FitIndexed, FitPlot>>
    /\ Recorded(TableOneSided.exp) = {}
    /\ Recorded(FitNested.rhs) = {"Speed ~ Layout"}
    /\ Recorded(FitIndexed.exp) = {"Speed ~ Layout", "Error ~ Age"}
    /\ Recorded(FitPlot.exp) = {"Speed ~ Layout"}

\* collect_hypotheses has just run for the statement at visit.at.
Collected == pc \in {"tree", "done", "panic_parent"} /\ visit.called

\* C26: when collect_hypotheses processes an expression, the set recorded
\* for every other expression is what it was before the call, also when the
\* other expression has the same HypothesesId.
C26_FrameOfExtension ==
    Collected =>
        \A exp \in DOMAIN expression_map :
            exp # ExpressionAt(visit.at) => Recorded(exp) = visit.before[expression_map[exp] + 1]

\* The second visit of f(a, b) has put "Speed ~ Layout" into the set that the
\* constant 1 shares with it.
C26_WitnessSharedId ==
    /\ Collected
    /\ visit.known.some
    /\ \E exp \in DOMAIN expression_map :
          /\ exp # ExpressionAt(visit.at)
          /\ expression_map[exp] = visit.known.val
          /\ detect_hypotheses(exp) = {}
          /\ Recorded(exp) # visit.before[expression_map[exp] + 1]

\* The RefNodes a map of branches lists, list after list.
RECURSIVE Listed(_)
Listed(branches) ==
    IF Len(branches) = 0 THEN <<>>
    ELSE Head(branches).nodes \o Listed(Tail(branches))

\* The RefNodes listed by the root and by the RefNodes of the first
\* statements.
RECURSIVE ListedUpTo(_)
ListedUpTo(count) ==
    IF count = 0 THEN Listed(root)
    ELSE ListedUpTo(count - 1)
            \o (IF count \in DOMAIN refs THEN Listed(refs[count].children) ELSE <<>>)

\* The RefNodes that can be reached from a map of branches.
RECURSIVE ReachableFrom(_)
ReachableFrom(branches) ==
    LET listed == Listed(branches)
        direct == {listed[k] : k \in DOMAIN listed}
    IN direct \cup UNION {ReachableFrom(refs[r].children) : r \in direct}

\* C27: while the tree is built and when it is finished, there is one
\* RefNode for every processed statement that has an expression, every
\* RefNode is listed exactly once, by the root or by one other RefNode, and
\* can be reached from the root; try_unwrap never fails; and the finished tree
\* has as many nodes as there are statements with an expression.
C27_NodeAccounting ==
    /\ pc # "panic_try_unwrap"
    /\ pc \in {"tree", "done"} =>
          LET listed == ListedUpTo(Len(stmts))
          IN /\ DOMAIN refs = {i \in Relevant : i < pos}
             /\ Len(listed) = Cardinality(DOMAIN refs)
             /\ \A r \in DOMAIN refs : Occurrences(listed, r) = 1
             /\ ReachableFrom(root) = DOMAIN refs
    /\ Finished => Len(TreeContents(tree.root)) = Cardinality(Relevant)

\* A finished tree of four nodes, two of them with the same expression, with
\* nodes listed by the root and by other nodes.
C27_Witness ==
    /\ Finished
    /\ Cardinality(Relevant) >= 4
    /\ \E i, j \in Relevant : i # j /\ ExpressionAt(i) = ExpressionAt(j)
    /\ Len(Listed(root)) >= 2
    /\ \E r \in DOMAIN refs : Len(Listed(refs[r].children)) >= 1

\* The HypothesesIds that are keys of branches anywhere in a finished tree.
RECURSIVE BranchKeys(_)
BranchKeys(branches) ==
    {branches[i].id : i \in DOMAIN branches}
        \cup UNION {BranchKeys(branches[i].nodes[j].children) :
                        <<i, j>> \in {<<a, b>> \in (DOMAIN branches) \X (1 .. Len(stmts)) :
                                        b \in DOMAIN branches[a].nodes}}

\* C28: every HypothesesId that expression_map holds names a set of
\* hypotheses_map at any time, so that get returns a set for it, and every
\* branch key of the finished tree, in the root or under any node, is a key
\* of the tree's hypotheses map.
C28_IdsResolve ==
    /\ \A exp \in DOMAIN expression_map :
          HypothesesMapGet(hypotheses_map, expression_map[exp]).some
    /\ Finished =>
          /\ BranchKeys(tree.root) \subseteq DOMAIN tree.hypotheses
          /\ \A exp \in Expressions : expression_map[exp] \in DOMAIN tree.hypotheses

\* A finished tree with branch keys 0 and 1 in the root and a key under a node.
C28_Witness ==
    /\ Finished
    /\ {0, 1} \subseteq {tree.root[i].id : i \in DOMAIN tree.root}
    /\ \E i \in DOMAIN tree.root : \E j \in DOMAIN tree.root[i].nodes :
          tree.root[i].nodes[j].children # <<>>
    /\ Cardinality(DOMAIN tree.hypotheses) >= 2

\* C29: extract_variable_name returns Some(name) or None for every
\* expression, also for a call whose callee is a call or a constant; it never
\* aborts.
C29_Total ==
    Extracted => visit.name # Panic

\* extract_variable_name has aborted on names()(y), a call whose callee is a
\* call, and on a call whose callee is a constant.
C29_WitnessCallOfCall ==
    /\ Extracted
    /\ visit.exp = Call(Call(Variable("names"), <<>>), <<Arg(None, Variable("y"))>>)
    /\ visit.name = Panic

C29_WitnessConstantCallee ==
    /\ Extracted
    /\ visit.exp = Call(Constant("1"), <<Arg(None, Variable("y"))>>)
    /\ visit.name = Panic

\* The expression map before the latest collect_hypotheses call.
ExpressionMapBefore ==
    IF visit.known.some THEN expression_map
    ELSE [exp \in DOMAIN expression_map \ {ExpressionAt(visit.at)} |-> expression_map[exp]]

\* C30: the outcome of processing a statement does not depend on the order
\* in which the graph enumerates the incoming neighbours: whatever the order,
\* collect_hypotheses yields the maps that were obtained, and the parent
\* taken from the sorted neighbours is the one whose branch list received the
\* node.  The maps are only ever read by key, so that the finished tree is a
\* function of the statements and the graph.
C30_OrderIndependent ==
    Attached =>
        LET exp == ExpressionAt(visit.at) IN
        \A order \in neighbors_directed(lines[exp]) :
            /\ collect_hypotheses(exp, visit.before, ExpressionMapBefore, order)
                  = [hypotheses_map |-> hypotheses_map, expression_map |-> expression_map]
            /\ LET parent == SelectParent(sort_unstable(order))
               IN IF parent.some
                  THEN /\ parent.val \in DOMAIN node_map
                       /\ EndsWith(BranchList(refs[node_map[parent.val]].children,
                                              expression_map[exp]), visit.at)
                  ELSE EndsWith(BranchList(root, expression_map[exp]), visit.at)

\* A statement with two incoming neighbours of different hypotheses, held
\* by different nodes, has been processed.
C30_Witness ==
    /\ Attached
    /\ \E m, n \in Incoming(lines[ExpressionAt(visit.at)]) :
          /\ m < n
          /\ m \in DOMAIN node_map /\ n \in DOMAIN node_map
          /\ node_map[m] # node_map[n]
          /\ Recorded(graph_nodes[m]) # Recorded(graph_nodes[n])

====
